---------------------------- MODULE Spec2Model ----------------------------
(***************************************************************************)
(* A model of the dbr-sim overlay-network simulator: the per-session ping  *)
(* tracker (src/src/node/session.rs), the node engine (src/src/node.rs,    *)
(* src/src/node/remote.rs) and the host simulator with its latency router  *)
(* (src/src/internet/mod.rs, src/src/internet/router.rs).                  *)
(*                                                                         *)
(* The module holds several specifications over the same variables:        *)
(*   SpecTracker  one SessionTracker driven by gen_ping / acknowledge_ping *)
(*   SpecNet      the host simulator ticking honest nodes over the router  *)
(*   SpecNode     one node fed any packets and actions by its environment  *)
(* Each specification pins the variables it does not use.                  *)
(***************************************************************************)
EXTENDS Integers, Sequences, FiniteSets, TLC

VARIABLES
    tracker,    \* SpecTracker: the SessionTracker under test
    now,        \* SpecTracker: the caller's clock (the node's ticks)
    th,         \* SpecTracker: history of the calls made (ghost)
    nodes,      \* NetSim.nodes: NetAddr -> Node
    router,     \* NetSim.router: [positions, packet_map]
    dht,        \* NetSim.route_coord_dht: NodeID -> RouteCoord
    sim,        \* SpecNet: where NetSim::tick stands; SpecNode: the budget
    nh          \* history of the nodes' ticks and of the commands (ghost)

vars == <<tracker, now, th, nodes, router, dht, sim, nh>>

trackerVars == <<tracker, now, th>>
netVars == <<nodes, router, dht, sim, nh>>

(***************************************************************************)
(* Generic helpers                                                         *)
(***************************************************************************)
\* Option<T>: None is the empty sequence, Some(x) is <<x>>
None == <<>>
Some(x) == <<x>>
IsSome(o) == o # <<>>
Unwrap(o) == o[1]

RECURSIVE SumSeq(_)
SumSeq(s) == IF s = <<>> THEN 0 ELSE Head(s) + SumSeq(Tail(s))

Min2(a, b) == IF a <= b THEN a ELSE b

(***************************************************************************)
(* priority_queue::PriorityQueue<PingID, Reverse<usize>> as used by the    *)
(* tracker: a map item -> send time; the highest priority is the smallest  *)
(* send time.  Which of several items of equal priority pop() returns is   *)
(* not fixed by the queue's contract: PQPopCandidates is the set of the    *)
(* possible results.                                                       *)
(***************************************************************************)
PQEmpty == [x \in {} |-> 0]

PQLen(q) == Cardinality(DOMAIN q)

\* push: insert the item, or update the priority of an item already queued
PQPush(q, item, time) ==
    [x \in (DOMAIN q) \cup {item} |-> IF x = item THEN time ELSE q[x]]

PQRemove(q, item) == [x \in (DOMAIN q) \ {item} |-> q[x]]

PQPopCandidates(q) == {x \in DOMAIN q : \A y \in DOMAIN q : q[x] <= q[y]}

(***************************************************************************)
(* SessionTracker (src/src/node/session.rs)                                *)
(***************************************************************************)
MAX_PENDING_PINGS == 25

\* period of ping_avg, SimpleMovingAverage::new(10)
SMA_PERIOD == 10

\* ping_avg holds the last SMA_PERIOD samples.  A sample is a distance
\* round_trip_time / 2.0; the window stores the round trip times, so the
\* mean of the distances is SumSeq(window) / (2 * Len(window)).
SMANext(window, rtt) ==
    LET w == Append(window, rtt)
    IN  IF Len(w) > SMA_PERIOD THEN Tail(w) ELSE w

\* the f64 mean of the window cast to RouteScalar (truncation)
SMAValue(window) == SumSeq(window) \div (2 * Len(window))

SessionTracker_new ==
    [ping_queue |-> PQEmpty, dist_avg |-> 0, dist_dev |-> 0,
     ping_avg |-> <<>>, ping_count |-> 0]

pending_pings(t) == PQLen(t.ping_queue)

\* the queue of gen_ping after its push
gen_ping_pushed(t, ping_id, gen_time) == PQPush(t.ping_queue, ping_id, gen_time)

\* mutant: gen_ping never evicts
gen_ping_pops_never(t, ping_id, gen_time) == FALSE

\* does gen_ping pop after its push
gen_ping_pops(t, ping_id, gen_time) ==
    PQLen(gen_ping_pushed(t, ping_id, gen_time)) >= MAX_PENDING_PINGS

\* what the pop of gen_ping may remove: the sets {x} for the items x of
\* highest priority, or only {} when gen_ping does not pop
gen_ping_victims(t, ping_id, gen_time) ==
    IF gen_ping_pops(t, ping_id, gen_time)
    THEN {{x} : x \in PQPopCandidates(gen_ping_pushed(t, ping_id, gen_time))}
    ELSE {{}}

\* gen_ping with the random ping_id and the popped item as parameters
gen_ping(t, ping_id, gen_time, victim) ==
    LET pushed == gen_ping_pushed(t, ping_id, gen_time)
    IN  [t EXCEPT !.ping_queue = [x \in (DOMAIN pushed) \ victim |-> pushed[x]]]

\* mutant: acknowledge_ping reads the entry and leaves it in the queue
acknowledge_ping_keeps(t, ping_id, current_time) ==
    IF ping_id \in DOMAIN t.ping_queue
    THEN LET avg == SMANext(t.ping_avg, current_time - t.ping_queue[ping_id])
         IN  [ok |-> TRUE, value |-> Some(SMAValue(avg)),
              tracker |-> [t EXCEPT !.ping_avg = avg,
                                    !.dist_avg = SMAValue(avg),
                                    !.ping_count = t.ping_count + 1]]
    ELSE [ok |-> FALSE, value |-> None, tracker |-> t]

\* acknowledge_ping: [ok, value, tracker]; ok = FALSE is Err(UnknownPingID)
acknowledge_ping(t, ping_id, current_time) ==
    IF ping_id \in DOMAIN t.ping_queue
    THEN LET time_sent == t.ping_queue[ping_id]
             round_trip_time == current_time - time_sent
             avg == SMANext(t.ping_avg, round_trip_time)
         IN  [ok |-> TRUE, value |-> Some(SMAValue(avg)),
              tracker |-> [t EXCEPT !.ping_queue = PQRemove(t.ping_queue, ping_id),
                                    !.ping_avg = avg,
                                    !.dist_avg = SMAValue(avg),
                                    !.ping_count = t.ping_count + 1]]
    ELSE [ok |-> FALSE, value |-> None, tracker |-> t]

(***************************************************************************)
(* SpecTracker: a tracker created by SessionTracker::new and then driven   *)
(* by any sequence of gen_ping and acknowledge_ping calls at non-decreasing*)
(* times.  Ping ids are random u64: an id never drawn before is written as *)
(* the next unused number, and a draw may also repeat an id that is still  *)
(* pending.                                                                *)
(***************************************************************************)
MaxGens == 30        \* gen_ping calls per behaviour
MaxEvents == 2       \* calls per behaviour other than a gen_ping of a new id
                     \* at a later time: an acknowledge_ping, a gen_ping at
                     \* the time of the previous one, a repeated id

InitTracker ==
    /\ nodes = <<>> /\ router = <<>> /\ dht = <<>> /\ sim = <<>> /\ nh = <<>>
    /\ tracker = SessionTracker_new
    /\ now = 0
    /\ th = [gens |-> 0, acks |-> 0, events |-> 0, collisions |-> 0,
             issued |-> 0, evicted |-> {}, acked |-> {},
             last |-> [op |-> "new"]]

\* an id no draw has returned before
FreshPingID == th.issued + 1

OldestIssued(ids) == CHOOSE x \in ids : \A y \in ids : x <= y
NewestIssued(ids) == CHOOSE x \in ids : \A y \in ids : x >= y

\* the pending ids a draw may repeat
CollidingPingIDs ==
    LET p == DOMAIN tracker.ping_queue
    IN  IF p # {} THEN {OldestIssued(p), NewestIssued(p)} ELSE {}

\* tracker.gen_ping(gen_time): tie = at the time of the previous call
GenPing ==
    /\ th.gens < MaxGens
    /\ \E tie \in BOOLEAN, ping_id \in {FreshPingID} \cup CollidingPingIDs :
        LET odd == (IF tie THEN 1 ELSE 0) + (IF ping_id = FreshPingID THEN 0 ELSE 1)
            gen_time == IF tie THEN now ELSE now + 1
        IN  /\ th.events + odd <= MaxEvents
            /\ \E victim \in gen_ping_victims(tracker, ping_id, gen_time) :
                /\ UNCHANGED netVars
                /\ tracker' = gen_ping(tracker, ping_id, gen_time, victim)
                /\ now' = gen_time
                /\ th' = [th EXCEPT
                        !.gens = @ + 1,
                        !.events = @ + odd,
                        !.collisions = IF ping_id = FreshPingID THEN @ ELSE @ + 1,
                        !.issued = IF ping_id = FreshPingID THEN ping_id ELSE @,
                        !.evicted = (@ \ {ping_id}) \cup victim,
                        !.acked = @ \ {ping_id},
                        !.last = [op |-> "gen", ping_id |-> ping_id, time |-> gen_time,
                                  before |-> tracker]]

\* ids handed to acknowledge_ping: the oldest and the newest pending one, the
\* first id issued (evicted or acknowledged by then) and one never issued
AckPingIDs ==
    LET p == DOMAIN tracker.ping_queue
    IN  (IF p = {} THEN {} ELSE {OldestIssued(p), NewestIssued(p)})
        \cup {1, FreshPingID}

\* tracker.acknowledge_ping(ping_id, now)
AckPing ==
    /\ th.events < MaxEvents
    /\ \E ping_id \in AckPingIDs :
        LET r == acknowledge_ping(tracker, ping_id, now)
        IN  /\ UNCHANGED netVars
            /\ tracker' = r.tracker
            /\ now' = now
            /\ th' = [th EXCEPT
                    !.acks = @ + 1,
                    !.events = @ + 1,
                    !.acked = IF r.ok THEN @ \cup {ping_id} ELSE @,
                    !.last = [op |-> "ack", ping_id |-> ping_id, time |-> now,
                              ok |-> r.ok, value |-> r.value, before |-> tracker]]

NextTracker == GenPing \/ AckPing

SpecTracker == InitTracker /\ [][NextTracker]_vars

(***************************************************************************)
(* Maps.  HashMap, BTreeMap and SlotMap are functions from the keys held to *)
(* their values; a BiHashMap is such a function that is also injective.     *)
(* The SlotMap key NodeIdx of a remote is written as the remote's NodeID:   *)
(* ids maps the one to the other one-to-one and no remote is ever removed.  *)
(***************************************************************************)
EmptyMap == [x \in {} |-> 0]

MapInsert(m, k, v) == [x \in (DOMAIN m) \cup {k} |-> IF x = k THEN v ELSE m[x]]

\* BiHashMap::insert: pairs holding the same left or the same right value are
\* removed before the pair is inserted
BiInsert(m, l, r) ==
    [x \in {y \in DOMAIN m : m[y] # r} \cup {l} |-> IF x = l THEN r ELSE m[x]]

RECURSIVE BiCollect(_)
\* FromIterator for BiHashMap: the pairs inserted in order
BiCollect(pairs) ==
    IF pairs = <<>> THEN EmptyMap
    ELSE LET last == pairs[Len(pairs)]
         IN  BiInsert(BiCollect(SubSeq(pairs, 1, Len(pairs) - 1)), last[1], last[2])

RECURSIVE SortedKeys(_)
\* the keys of a BTreeMap in iteration order
SortedKeys(keys) ==
    IF keys = {} THEN <<>>
    ELSE LET least == CHOOSE k \in keys : \A j \in keys : k <= j
         IN  <<least>> \o SortedKeys(keys \ {least})

Take(s, n) == SubSeq(s, 1, Min2(n, Len(s)))

\* squared Euclidean distance of two route coordinates (diff.dot(&diff))
DistSq(p, q) == (p[1] - q[1]) * (p[1] - q[1]) + (p[2] - q[2]) * (p[2] - q[2])

(***************************************************************************)
(* Sessions and remotes (src/src/node/session.rs, src/src/node/remote.rs)   *)
(***************************************************************************)
SessionType_direct(net_addr) ==
    [kind |-> "Direct", net_addr |-> net_addr,
     is_peered |-> FALSE, is_incoming_peer |-> FALSE]

SessionType_traversed(route_coord) ==
    [kind |-> "Traversed", route_coord |-> route_coord]

RemoteSession_new(session_id, session_type) ==
    [session_id |-> session_id, session_type |-> session_type,
     tracker |-> SessionTracker_new, last_packet_times |-> EmptyMap]

is_direct(session) == session.session_type.kind = "Direct"

is_peer(session) == is_direct(session) /\ session.session_type.is_peered

set_peer(session, toggle) ==
    IF is_direct(session)
    THEN [session EXCEPT !.session_type.is_peered = toggle]
    ELSE session

record_peer_notify(session, notified) ==
    IF is_direct(session)
    THEN [session EXCEPT !.session_type.is_incoming_peer = notified]
    ELSE session

\* check_packet_time: [last, session]; last is how long ago a packet of this
\* variant came from the remote, None the first time
check_packet_time(session, variant, current_time) ==
    IF variant \in DOMAIN session.last_packet_times
    THEN [last |-> Some(current_time - session.last_packet_times[variant]),
          session |-> [session EXCEPT !.last_packet_times[variant] = current_time]]
    ELSE [last |-> None,
          session |-> [session EXCEPT !.last_packet_times =
                            MapInsert(@, variant, current_time)]]

RemoteNode_new(node_id) ==
    [node_id |-> node_id, route_coord |-> None, pending_session |-> None,
     session |-> None]

session_active(remote) == remote.session # None /\ remote.pending_session = None

is_viable_peer(remote) ==
    IF remote.route_coord # None /\ remote.session # None
    THEN IF is_direct(Unwrap(remote.session)) THEN remote.route_coord ELSE None
    ELSE None

(***************************************************************************)
(* Packets.  A NetSimPacket carries either a request for the host or the    *)
(* bytes of a NodeEncryption; data is Some(encryption) for the bytes that   *)
(* package() produced and None for no bytes.                                *)
(***************************************************************************)
package(encryption, dest_addr) ==
    [dest_addr |-> dest_addr, src_addr |-> 0, request |-> None,
     data |-> Some(encryption)]

gen_request(dest_addr, request) ==
    [dest_addr |-> dest_addr, src_addr |-> dest_addr, request |-> Some(request),
     data |-> None]

Handshake(recipient, session_id, signer) ==
    [type |-> "Handshake", recipient |-> recipient, session_id |-> session_id,
     signer |-> signer]

Acknowledge(session_id, acknowledger, return_ping_id) ==
    [type |-> "Acknowledge", session_id |-> session_id,
     acknowledger |-> acknowledger, return_ping_id |-> return_ping_id]

Notify(recipient, data, sender) ==
    [type |-> "Notify", recipient |-> recipient, data |-> data, sender |-> sender]

wrap_session(session, packet) ==
    [type |-> "Session", session_id |-> session.session_id, packet |-> packet]

TraversedPacket_new(destination, encryption, origin) ==
    [type |-> "Traverse", destination |-> destination,
     encryption |-> encryption, origin |-> origin]

\* is the envelope of a Traverse packet meant for this node
is_for_node(encryption, node) ==
    CASE encryption.type = "Handshake" -> encryption.recipient = node.node_id
      [] encryption.type = "Acknowledge" ->
            /\ encryption.acknowledger \in DOMAIN node.remotes
            /\ node.remotes[encryption.acknowledger].pending_session # None
      [] encryption.type = "Session" -> encryption.session_id \in DOMAIN node.sessions
      [] OTHER -> encryption.recipient = node.node_id

(***************************************************************************)
(* The node engine (src/src/node.rs).  A handler works on a context         *)
(*   [node, outgoing, out_actions, log, rnd, used, panic]                   *)
(* holding the node, the packets and actions produced so far in the tick,   *)
(* the ghost log of the tick, the values rand::random() returns in the tick *)
(* and how many of them were drawn, and whether the program has panicked.   *)
(* A handler returns [ok, st, ret]: ok = FALSE is an Err, reached with the  *)
(* state changes made before the `?` that returned it.                      *)
(***************************************************************************)
TARGET_PEER_COUNT == 10
MAX_REQUEST_PINGS == 10
\* usize::MAX, the rank of a PeerNotify that withdraws peering (no arithmetic
\* is done on a rank)
USIZE_MAX == -1

\* iter_desc stands for the hasher state of the node's hash maps: the order
\* in which peer_list is iterated (ascending or descending NodeIdx)
Node_new(node_id, net_addr, iter_desc) ==
    [node_id |-> node_id, net_addr |-> net_addr, route_coord |-> None,
     deux_ex_data |-> None, is_public |-> TRUE, public_route |-> None,
     ticks |-> 0, remotes |-> EmptyMap, sessions |-> EmptyMap,
     direct_sorted |-> EmptyMap, peer_list |-> EmptyMap,
     action_list |-> <<>>, iter_desc |-> iter_desc]

Context(node, rnd) ==
    [node |-> node, outgoing |-> <<>>, out_actions |-> <<>>, log |-> <<>>,
     rnd |-> rnd, used |-> 0, panic |-> FALSE]

Ok(st) == [ok |-> TRUE, st |-> st, ret |-> None]
OkSome(st, ret) == [ok |-> TRUE, st |-> st, ret |-> Some(ret)]
Err(st, err) ==
    [ok |-> FALSE, ret |-> None,
     st |-> [st EXCEPT !.log = Append(@, [ev |-> "error", err |-> err])]]

Logged(st, event) == [st EXCEPT !.log = Append(@, event)]

\* rand::random(): the next value of the tick's draws (1 when they ran out:
\* a tick that draws more often than rnd is long is not taken)
Random(st) == IF st.used < Len(st.rnd) THEN st.rnd[st.used + 1] ELSE 1
Drawn(st) == [st EXCEPT !.used = @ + 1]

add_remote(node, node_id) ==
    IF node_id \in DOMAIN node.remotes THEN node
    ELSE [node EXCEPT !.remotes = MapInsert(@, node_id, RemoteNode_new(node_id))]

\* the peers at the least squared distance from the coordinate
find_closest_peer_candidates(node, remote_route_coord) ==
    {p \in DOMAIN node.peer_list :
        \A q \in DOMAIN node.peer_list :
            DistSq(node.peer_list[p], remote_route_coord)
                <= DistSq(node.peer_list[q], remote_route_coord)}

\* min_by_key returns the first of the least elements in iteration order;
\* None is Err(InsufficientPeers)
find_closest_peer(node, remote_route_coord) ==
    LET first(c) ==
            IF c = {} THEN None
            ELSE IF node.iter_desc
                 THEN Some(CHOOSE p \in c : \A q \in c : p >= q)
                 ELSE Some(CHOOSE p \in c : \A q \in c : p <= q)
    IN  first(find_closest_peer_candidates(node, remote_route_coord))

MaxWraps == 2    \* Traverse envelopes nested by one gen_packet

RECURSIVE session_gen_packet(_, _, _, _)
\* gen_packet of a Traversed session: the envelope is wrapped as a Traverse
\* packet and sent through the peer closest to the coordinate of the session
traversed_gen_packet(session, encryption, node, wraps) ==
    LET route_coord == session.session_type.route_coord
        through(peer) ==
            IF peer.session = None THEN None
            ELSE session_gen_packet(Unwrap(peer.session),
                    wrap_session(Unwrap(peer.session),
                        TraversedPacket_new(route_coord, encryption,
                                            node.route_coord)),
                    node, wraps - 1)
        sent(closest_peer) ==
            IF node.route_coord = None \/ closest_peer = None \/ wraps = 0
            THEN None
            ELSE through(node.remotes[Unwrap(closest_peer)])
    IN  sent(find_closest_peer(node, route_coord))

\* RemoteSession::gen_packet: Some(packet), or None for an Err.  A Direct
\* session packages the envelope for its address.
session_gen_packet(session, encryption, node, wraps) ==
    IF is_direct(session)
    THEN Some(package(encryption, session.session_type.net_addr))
    ELSE traversed_gen_packet(session, encryption, node, wraps)

\* RemoteNode::gen_packet
remote_gen_packet(remote, packet, node) ==
    IF remote.session = None THEN None
    ELSE session_gen_packet(Unwrap(remote.session),
                            wrap_session(Unwrap(remote.session), packet),
                            node, MaxWraps)

send_packet(st, node_idx, packet) ==
    IF node_idx \notin DOMAIN st.node.remotes THEN Err(st, "InvalidNodeIndex")
    ELSE LET pushes(p) ==
                IF p = None THEN Err(st, "RemoteNodeError")
                ELSE Ok([st EXCEPT !.outgoing = Append(@, Unwrap(p))])
         IN  pushes(remote_gen_packet(st.node.remotes[node_idx], packet, st.node))

\* connect: the pending session is recorded before the Handshake is emitted
connect(st, dest_node_id, session_type, initial_packets) ==
    LET session_id == Random(st)
        encryption == Handshake(dest_node_id, session_id, st.node.node_id)
        sent == [ev |-> "handshake_sent", recipient |-> dest_node_id,
                 session_id |-> session_id]
        logged(r) == IF r.ok THEN Ok(Logged(r.st, sent)) ELSE r
        through(st2, closest_peer) ==
            IF closest_peer = None THEN Err(st2, "InsufficientPeers")
            ELSE logged(send_packet(st2, Unwrap(closest_peer),
                            TraversedPacket_new(session_type.route_coord,
                                                encryption, st2.node.route_coord)))
        emits(st2) ==
            IF session_type.kind = "Direct"
            THEN Ok(Logged([st2 EXCEPT !.outgoing =
                        Append(@, package(encryption, session_type.net_addr))], sent))
            ELSE IF st2.node.route_coord = None
            THEN Err(st2, "NoCalculatedRouteCoord")
            ELSE through(st2, find_closest_peer(st2.node, session_type.route_coord))
        pending(n1) ==
            [n1 EXCEPT !.remotes[dest_node_id].pending_session =
                Some([session_id |-> session_id, time |-> n1.ticks,
                      packets |-> initial_packets,
                      session_type |-> session_type])]
    IN  emits([Drawn(st) EXCEPT !.node = pending(add_remote(st.node, dest_node_id))])

\* the initial packets of a connection: an ExchangeInfo is filled in
update_connection_packets(node, return_node_idx, packets) ==
    LET distance == Unwrap(node.remotes[return_node_idx].session).tracker.dist_avg
    IN  [i \in 1..Len(packets) |->
            IF packets[i].type = "ExchangeInfo"
            THEN [packets[i] EXCEPT !.route_coord = node.route_coord,
                                    !.direct_count = Cardinality(DOMAIN node.remotes),
                                    !.ping = distance]
            ELSE packets[i]]

\* the tie-break of a Handshake that meets a pending session
handshake_yields(self_node_id, remote_node_id) == self_node_id < remote_node_id

ack_matches_never(pending_session_id, session_id) == FALSE

ack_matches(pending_session_id, session_id) == pending_session_id = session_id

addressed_to_any(recipient, node_id) == TRUE

\* the recipient check of the Handshake arm
addressed_to(recipient, node_id) == recipient = node_id

\* the Handshake arm of parse_node_encryption.  The ghost log records for
\* every Handshake addressed to the node what the arm left: the remote of
\* the signer, the session index and the packets pushed.
parse_handshake(st, encryption, return_session_type) ==
    LET signer == encryption.signer
        session_id == encryption.session_id
        return_ping_id == Random(st)
        acknowledgement == Acknowledge(session_id, encryption.recipient,
                                       return_ping_id)
        yields(remote) ==
            remote.pending_session # None
                /\ handshake_yields(st.node.node_id, remote.node_id)
        accepted(st2, session, packet, had_pending) ==
            IF packet = None THEN Err(st2, "SessionError")
            ELSE Ok(Logged(
                    [st2 EXCEPT !.outgoing = Append(@, Unwrap(packet)),
                                !.node.remotes[signer].session = Some(session),
                                !.node.sessions = BiInsert(@, session_id, signer)],
                    [ev |-> "handshake_accepted", signer |-> signer,
                     session_id |-> session_id,
                     had_pending |-> had_pending,
                     has_pending |->
                        st2.node.remotes[signer].pending_session # None]))
        acknowledged(n2, session, had_pending) ==
            accepted([Drawn(st) EXCEPT !.node = n2], session,
                     session_gen_packet(session, acknowledgement, n2, MaxWraps),
                     had_pending)
        added(n1) ==
            acknowledged(
                [n1 EXCEPT !.remotes[signer].pending_session =
                                IF yields(n1.remotes[signer]) THEN None ELSE @],
                [RemoteSession_new(session_id, return_session_type) EXCEPT
                    !.tracker = gen_ping(@, return_ping_id, n1.ticks, {})],
                n1.remotes[signer].pending_session # None)
        noted(r) ==
            [r EXCEPT !.st = Logged(@,
                [ev |-> "handshake", signer |-> signer, session_id |-> session_id,
                 session_type |-> return_session_type,
                 return_ping_id |-> return_ping_id,
                 ok |-> r.ok, self |-> st.node.node_id,
                 had_pending |-> signer \in DOMAIN st.node.remotes
                                 /\ st.node.remotes[signer].pending_session # None,
                 remote |-> r.st.node.remotes[signer],
                 sessions |-> r.st.node.sessions,
                 pushed |-> SubSeq(r.st.outgoing, Len(st.outgoing) + 1,
                                   Len(r.st.outgoing))])]
        \* the ghost log records what a Handshake for another node left
        misaddressed(r) ==
            [r EXCEPT !.st = Logged(@,
                [ev |-> "misaddressed", signer |-> signer, session_id |-> session_id,
                 recipient |-> encryption.recipient, ok |-> r.ok,
                 node_before |-> st.node, node |-> r.st.node,
                 pushed |-> SubSeq(r.st.outgoing, Len(st.outgoing) + 1,
                                   Len(r.st.outgoing))])]
        handled ==
            IF ~addressed_to(encryption.recipient, st.node.node_id)
            THEN Err(st, "UnknownAckRecipient")
            ELSE noted(added(add_remote(st.node, signer)))
    IN  IF encryption.recipient = st.node.node_id THEN handled
        ELSE misaddressed(handled)

\* the Acknowledge arm of parse_node_encryption
parse_acknowledge(st, encryption) ==
    LET node == st.node
        acknowledger == encryption.acknowledger
        session_id == encryption.session_id
        taken == [st EXCEPT !.node.remotes[acknowledger].pending_session = None]
        noted(r, distance) ==
            IF ~r.ok THEN r
            ELSE Ok([r.st EXCEPT
                    !.node.sessions = BiInsert(@, session_id, acknowledger),
                    !.node.direct_sorted = MapInsert(@, distance, acknowledger)])
        initiated(st2, pending, distance) ==
            noted(send_packet(st2, acknowledger,
                    [type |-> "ConnectionInit",
                     ping_id |-> encryption.return_ping_id,
                     packets |-> update_connection_packets(st2.node, acknowledger,
                                                           pending.packets)]),
                  distance)
        \* the ping drawn is acknowledged at once: every draw gives the same
        \* tracker
        installed(pending, fresh, acked) ==
            initiated(
                Logged([taken EXCEPT !.node.remotes[acknowledger].session =
                            Some([fresh EXCEPT !.tracker = acked.tracker])],
                       [ev |-> "ack_accepted", acknowledger |-> acknowledger,
                        session_id |-> session_id,
                        pending_session_id |-> pending.session_id]),
                pending, Unwrap(acked.value))
        created(pending, fresh) ==
            installed(pending, fresh,
                acknowledge_ping(gen_ping(fresh.tracker, 1, pending.time, {}),
                                 1, node.ticks))
        matched(pending) ==
            IF ~ack_matches(pending.session_id, session_id)
            THEN Err(taken, "UnknownAck")
            ELSE created(pending, RemoteSession_new(session_id, pending.session_type))
        remote_of(n) ==
            IF acknowledger \in DOMAIN n.remotes THEN Some(n.remotes[acknowledger])
            ELSE None
        \* the ghost log records what the arm found and what it left
        seen(r) ==
            [r EXCEPT !.st = Logged(@,
                [ev |-> "acknowledge", acknowledger |-> acknowledger,
                 session_id |-> session_id,
                 return_ping_id |-> encryption.return_ping_id,
                 ok |-> r.ok, time |-> node.ticks,
                 remote_before |-> remote_of(node),
                 remote |-> remote_of(r.st.node),
                 sessions_before |-> node.sessions,
                 sessions |-> r.st.node.sessions,
                 direct_sorted_before |-> node.direct_sorted,
                 direct_sorted |-> r.st.node.direct_sorted,
                 pushed |-> SubSeq(r.st.outgoing, Len(st.outgoing) + 1,
                                   Len(r.st.outgoing))])]
    IN  seen(IF acknowledger \notin DOMAIN node.remotes THEN Err(st, "InvalidNodeID")
             ELSE IF node.remotes[acknowledger].pending_session = None
             THEN Err(st, "NoPendingHandshake")
             ELSE matched(Unwrap(node.remotes[acknowledger].pending_session)))

\* parse_node_encryption: ret is Some(<<node_idx, packet>>) for a Session
\* envelope of a known session; any other envelope panics (unimplemented!())
parse_node_encryption(st, encryption, return_session_type) ==
    CASE encryption.type = "Handshake" ->
            parse_handshake(st, encryption, return_session_type)
      [] encryption.type = "Acknowledge" -> parse_acknowledge(st, encryption)
      [] encryption.type = "Session" ->
            IF encryption.session_id \in DOMAIN st.node.sessions
            THEN OkSome(st, <<st.node.sessions[encryption.session_id],
                              encryption.packet>>)
            ELSE Err(st, "InvalidSessionID")
      [] OTHER -> Err([st EXCEPT !.panic = TRUE], "panic")

\* Node::action: the action joins the node's action_list
action(st, act) == [st EXCEPT !.node.action_list = Append(@, act)]

UpdateRemote(node_id, route_coord, direct_count, ping) ==
    [type |-> "UpdateRemote", node_id |-> node_id, route_coord |-> route_coord,
     direct_count |-> direct_count, ping |-> ping]

Connect(node_id, net_addr, packets) ==
    [type |-> "Connect", node_id |-> node_id, net_addr |-> net_addr,
     packets |-> packets]

ExchangeInfo(route_coord, direct_count, ping) ==
    [type |-> "ExchangeInfo", route_coord |-> route_coord,
     direct_count |-> direct_count, ping |-> ping]

\* the NodeIdx values of direct_sorted in key order
direct_nodes(node) ==
    LET keys == SortedKeys(DOMAIN node.direct_sorted)
    IN  [i \in 1..Len(keys) |-> node.direct_sorted[keys[i]]]

RECURSIVE SortByKey(_, _, _)
\* positions of a sequence sorted by key; of equal keys the earlier position
\* comes first, or the later one when desc (sort_unstable_by_key fixes no
\* order for them)
SortByKey(positions, key, desc) ==
    IF positions = {} THEN <<>>
    ELSE LET first == CHOOSE i \in positions : \A j \in positions :
                        \/ key[i] < key[j]
                        \/ key[i] = key[j] /\ (IF desc THEN i >= j ELSE i <= j)
         IN  <<first>> \o SortByKey(positions \ {first}, key, desc)

RECURSIVE parse_node_packet(_, _, _)
RECURSIVE parse_packets(_, _, _)

\* the nested packets of a ConnectionInit, up to the first that fails
parse_packets(st, return_node_idx, packets) ==
    IF packets = <<>> THEN Ok(st)
    ELSE LET rest(r) ==
                IF r.ok THEN parse_packets(r.st, return_node_idx, Tail(packets))
                ELSE r
         IN  rest(parse_node_packet(st, return_node_idx, Head(packets)))

packet_ConnectionInit(st, idx, packet) ==
    LET session == Unwrap(st.node.remotes[idx].session)
        measured(acked) ==
            IF ~acked.ok THEN Err(st, "UnknownPingID")
            ELSE parse_packets(
                    [st EXCEPT !.node.remotes[idx].session =
                                    Some([session EXCEPT !.tracker = acked.tracker]),
                               !.node.direct_sorted =
                                    MapInsert(@, Unwrap(acked.value), idx)],
                    idx, packet.packets)
    IN  measured(acknowledge_ping(session.tracker, packet.ping_id, st.node.ticks))

packet_ExchangeInfo(st, idx, packet) ==
    LET node == st.node
        first == node.node_id = 0 /\ Cardinality(DOMAIN node.direct_sorted) = 1
                    /\ node.route_coord = None
    IN  IF first /\ node.deux_ex_data = None THEN Err(st, "no deus ex machina data")
        ELSE
        LET st1 == IF first THEN [st EXCEPT !.node.route_coord = node.deux_ex_data]
                   ELSE st
            st2 == action(st1, UpdateRemote(idx, packet.route_coord,
                                            packet.direct_count, packet.ping))
        IN  send_packet(st2, idx,
                [type |-> "ExchangeInfoResponse",
                 route_coord |-> st2.node.route_coord,
                 direct_count |-> Cardinality(DOMAIN st2.node.direct_sorted),
                 ping |-> Unwrap(st2.node.remotes[idx].session).tracker.dist_avg])

packet_ProposeRouteCoords(st, idx, packet) ==
    LET acceptable == st.node.route_coord = None
        st1 == IF acceptable
               THEN [st EXCEPT !.node.route_coord = Some(packet.self_proposal),
                               !.node.remotes[idx].route_coord =
                                    Some(packet.remote_proposal)]
               ELSE st
    IN  send_packet(st1, idx,
            [type |-> "ProposeRouteCoordsResponse",
             remote_proposal |-> packet.self_proposal,
             self_proposal |-> packet.remote_proposal,
             accepted |-> acceptable])

packet_ProposeRouteCoordsResponse(st, idx, packet) ==
    IF packet.accepted
    THEN Ok([st EXCEPT !.node.route_coord = Some(packet.self_proposal),
                       !.node.remotes[idx].route_coord = Some(packet.remote_proposal)])
    ELSE Ok(st)

\* the remotes a RequestPings is passed on to, before the cut to num_requests
closest_nodes(node, requester_route_coord) ==
    LET direct == direct_nodes(node)
    IN  IF requester_route_coord = None THEN direct
        ELSE LET known == {i \in 1..Len(direct) :
                                node.remotes[direct[i]].route_coord # None}
                 key == [i \in known |->
                            DistSq(Unwrap(node.remotes[direct[i]].route_coord),
                                   Unwrap(requester_route_coord))]
                 sorted == SortByKey(known, key, node.iter_desc)
             IN  [i \in 1..Len(sorted) |-> direct[sorted[i]]]

RECURSIVE send_want_pings(_, _, _, _)
send_want_pings(st, node_idxs, return_node_id, want_ping_packet) ==
    IF node_idxs = <<>> THEN Ok(st)
    ELSE IF Head(node_idxs) = return_node_id
    THEN send_want_pings(st, Tail(node_idxs), return_node_id, want_ping_packet)
    ELSE LET rest(r) ==
                IF r.ok
                THEN send_want_pings(r.st, Tail(node_idxs), return_node_id,
                                     want_ping_packet)
                ELSE r
         IN  rest(send_packet(st, Head(node_idxs), want_ping_packet))

\* the ghost log records the time of the request, whether it passed the
\* rate limit, the number of pings requested, the remotes before the request
\* and the packets pushed
packet_RequestPings(st, idx, packet, packet_last_received) ==
    LET num_requests == Min2(packet.requests, MAX_REQUEST_PINGS)
        st1 == [st EXCEPT !.node.remotes[idx].route_coord = packet.route_coord]
        closest == Take(closest_nodes(st1.node, packet.route_coord), num_requests)
        session == Unwrap(st1.node.remotes[idx].session)
        noted(r, dropped) ==
            [r EXCEPT !.st = Logged(@,
                [ev |-> "request_pings", from |-> idx, dropped |-> dropped,
                 time |-> st.node.ticks,
                 requests |-> packet.requests,
                 remotes |-> st.node.remotes,
                 pushed |-> SubSeq(r.st.outgoing, Len(st.outgoing) + 1,
                                   Len(r.st.outgoing)),
                 emitted |-> Len(r.st.outgoing) - Len(st.outgoing)])]
    IN  IF packet_last_received # None /\ Unwrap(packet_last_received) < 2000
        THEN noted(Ok(st), TRUE)
        ELSE IF ~is_direct(session) THEN noted(Err(st1, "NotDirectType"), FALSE)
        ELSE noted(send_want_pings(st1, closest, idx,
                        [type |-> "WantPing", node_id |-> idx,
                         net_addr |-> session.session_type.net_addr]),
                   FALSE)

packet_WantPing(st, idx, packet) ==
    LET node == st.node
    IN  IF node.node_id = packet.node_id \/ node.route_coord = None THEN Ok(st)
        ELSE
        LET distance_self_to_return == Unwrap(node.remotes[idx].session).tracker.dist_avg
            st1 == [st EXCEPT !.node = add_remote(node, packet.node_id)]
            request_remote == st1.node.remotes[packet.node_id]
        IN  IF request_remote.session # None \/ request_remote.pending_session # None
            THEN Ok(st1)
            ELSE Ok(action(st1, Connect(packet.node_id, packet.net_addr,
                        <<[type |-> "AcceptWantPing", node_id |-> idx,
                           distance |-> distance_self_to_return]>>)))

packet_AcceptWantPing(st, idx, packet, packet_last_received) ==
    IF packet_last_received # None /\ Unwrap(packet_last_received) < 300
    THEN Ok(st)
    ELSE send_packet(st, idx,
            ExchangeInfo(st.node.route_coord,
                         Cardinality(DOMAIN st.node.direct_sorted),
                         Unwrap(st.node.remotes[idx].session).tracker.dist_avg))

packet_PeerNotify(st, idx, packet) ==
    LET session == Unwrap(st.node.remotes[idx].session)
    IN  IF ~is_direct(session) THEN Err(st, "NotDirectType")
        ELSE Ok(action(
                [st EXCEPT !.node.remotes[idx].session =
                    Some(record_peer_notify(session, packet.rank # USIZE_MAX))],
                UpdateRemote(idx, Some(packet.route_coord), packet.peer_count,
                             packet.distance)))

\* a Traverse packet is at a local minimum when the closest peer is the node
\* it came from
is_local_minimum_never(return_node_id, closest_node_id) == FALSE

is_local_minimum(return_node_id, closest_node_id) ==
    return_node_id = closest_node_id

\* the ghost log records who sent the Traverse packet, the closest peer,
\* whether the envelope was meant for this node, whether the packet carried
\* an origin, whether the envelope was handed to parse_node_encryption,
\* whether the packet was sent on, the packet, the peers and the session of
\* the closest peer before the arm, and the packets pushed
packet_Traverse(st, idx, packet) ==
    LET handled(r) ==
            IF r.ok /\ r.ret # None
            THEN parse_node_packet(r.st, Unwrap(r.ret)[1], Unwrap(r.ret)[2])
            ELSE r
        \* [r, parsed]: the result and whether the envelope was parsed locally
        routed(closest_peer_idx) ==
            IF closest_peer_idx = None
            THEN [r |-> Err(st, "InsufficientPeers"), parsed |-> FALSE]
            ELSE IF is_for_node(packet.encryption, st.node)
            THEN IF packet.origin = None THEN [r |-> Ok(st), parsed |-> FALSE]
                 ELSE [r |-> handled(parse_node_encryption(st, packet.encryption,
                                SessionType_traversed(Unwrap(packet.origin)))),
                       parsed |-> TRUE]
            ELSE IF ~is_local_minimum(idx, Unwrap(closest_peer_idx))
            THEN [r |-> send_packet(st, Unwrap(closest_peer_idx), packet),
                  parsed |-> FALSE]
            ELSE [r |-> Ok(st), parsed |-> FALSE]
        noted(closest_peer_idx, out) ==
            [out.r EXCEPT !.st = Logged(@,
                [ev |-> "traverse", from |-> idx, closest |-> closest_peer_idx,
                 for_node |-> is_for_node(packet.encryption, st.node),
                 has_origin |-> packet.origin # None,
                 parsed |-> out.parsed,
                 packet |-> packet,
                 peers |-> st.node.peer_list,
                 peer_session |->
                    IF closest_peer_idx = None THEN None
                    ELSE st.node.remotes[Unwrap(closest_peer_idx)].session,
                 pushed |-> SubSeq(out.r.st.outgoing, Len(st.outgoing) + 1,
                                   Len(out.r.st.outgoing)),
                 forwarded |->
                    \E i \in (Len(st.outgoing) + 1)..Len(out.r.st.outgoing) :
                        /\ out.r.st.outgoing[i].data # None
                        /\ Unwrap(out.r.st.outgoing[i].data).type = "Session"
                        /\ Unwrap(out.r.st.outgoing[i].data).packet = packet,
                 emitted |-> Len(out.r.st.outgoing) - Len(st.outgoing)])]
        found(closest_peer_idx) == noted(closest_peer_idx, routed(closest_peer_idx))
    IN  found(find_closest_peer(st.node, packet.destination))

\* parse_node_packet: the time of the packet's variant is recorded, then the
\* packet is handled
parse_node_packet(st, return_node_idx, received_packet) ==
    LET t == received_packet.type
        handled(st1, packet_last_received) ==
            CASE t = "ConnectionInit" ->
                    packet_ConnectionInit(st1, return_node_idx, received_packet)
              [] t = "ExchangeInfo" ->
                    packet_ExchangeInfo(st1, return_node_idx, received_packet)
              [] t = "ExchangeInfoResponse" ->
                    Ok(action(st1, UpdateRemote(return_node_idx,
                            received_packet.route_coord, received_packet.direct_count,
                            received_packet.ping)))
              [] t = "ProposeRouteCoords" ->
                    packet_ProposeRouteCoords(st1, return_node_idx, received_packet)
              [] t = "ProposeRouteCoordsResponse" ->
                    packet_ProposeRouteCoordsResponse(st1, return_node_idx,
                                                      received_packet)
              [] t = "RequestPings" ->
                    packet_RequestPings(st1, return_node_idx, received_packet,
                                        packet_last_received)
              [] t = "WantPing" ->
                    packet_WantPing(st1, return_node_idx, received_packet)
              [] t = "AcceptWantPing" ->
                    packet_AcceptWantPing(st1, return_node_idx, received_packet,
                                          packet_last_received)
              [] t = "PeerNotify" ->
                    packet_PeerNotify(st1, return_node_idx, received_packet)
              [] t = "Traverse" ->
                    packet_Traverse(st1, return_node_idx, received_packet)
              [] OTHER -> Ok(st1)
        timed(checked) ==
            handled(Logged(
                        [st EXCEPT !.node.remotes[return_node_idx].session =
                                        Some(checked.session)],
                        [ev |-> "packet", from |-> return_node_idx, type |-> t]),
                    checked.last)
    IN  IF return_node_idx \notin DOMAIN st.node.remotes
        THEN Err(st, "InvalidNodeIndex")
        ELSE IF st.node.remotes[return_node_idx].session = None
        THEN Err(st, "NoSessionError")
        ELSE timed(check_packet_time(
                        Unwrap(st.node.remotes[return_node_idx].session),
                        t, st.node.ticks))

\* parse_packet: ret is Some(<<node_idx, packet>>) when a node packet is to be
\* handled
parse_packet(st, received_packet) ==
    IF received_packet.dest_addr # st.node.net_addr
    THEN Err(st, "InvalidNetworkRecipient")
    ELSE IF received_packet.request # None
    THEN LET request == Unwrap(received_packet.request)
         IN  IF request.type = "RouteCoordDHTReadResponse" /\ request.route # None
             THEN LET n1 == add_remote(st.node, request.node_id)
                  IN  Ok([st EXCEPT !.node =
                            [n1 EXCEPT !.remotes[request.node_id].route_coord =
                                IF @ = None THEN request.route ELSE @]])
             ELSE Ok(st)
    ELSE IF received_packet.data = None THEN Err(st, "DecodeError")
    ELSE parse_node_encryption(st, Unwrap(received_packet.data),
                               SessionType_direct(received_packet.src_addr))

PeerNotify(rank, route_coord, peer_count, distance) ==
    [type |-> "PeerNotify", rank |-> rank, route_coord |-> route_coord,
     peer_count |-> peer_count, distance |-> distance]

Condition(condition, embedded_action) ==
    [type |-> "Condition", condition |-> condition, action |-> embedded_action]

pushed(st, act) == [st EXCEPT !.out_actions = Append(@, act)]

\* remote.route_coord != remote_route_coord
route_differs(recorded, received) == recorded # received

action_UpdateRemote(st, act) ==
    LET node == st.node
        self_route_coord == node.route_coord
    IN  IF act.node_id \notin DOMAIN node.remotes THEN Err(st, "InvalidNodeID")
        ELSE
        LET changed == route_differs(node.remotes[act.node_id].route_coord,
                                     act.route_coord)
            st1 == [st EXCEPT !.node.remotes[act.node_id].route_coord = act.route_coord]
            st2 == IF self_route_coord = None
                   THEN pushed(st1, [type |-> "CalcRouteCoord"])
                   ELSE st1
            did_route_change == changed /\ self_route_coord # None
            st3 == IF did_route_change
                   THEN pushed(st2, [type |-> "CalculatePeers"])
                   ELSE st2
        IN  IF Cardinality(DOMAIN node.direct_sorted) < TARGET_PEER_COUNT
                /\ act.direct_count >= 2
            THEN send_packet(st3, act.node_id,
                    [type |-> "RequestPings", requests |-> TARGET_PEER_COUNT,
                     route_coord |-> self_route_coord])
            ELSE Ok(st3)

RECURSIVE viable_peers(_, _)
\* the pairs (node_idx, route_coord) of the viable peers among node_idxs, in order
viable_peers(node, node_idxs) ==
    IF node_idxs = <<>> THEN <<>>
    ELSE LET coord == is_viable_peer(node.remotes[Head(node_idxs)])
             rest == viable_peers(node, Tail(node_idxs))
         IN  IF coord = None THEN rest
             ELSE << <<Head(node_idxs), Unwrap(coord)>> >> \o rest

\* mutant: every viable peer is taken
peer_limit_none(viable) == viable

\* .take(TARGET_PEER_COUNT)
peer_limit(viable) == Take(viable, TARGET_PEER_COUNT)

\* match (!is_peer(), toggle): Some(rank) of the PeerNotify to send, or None
notifies(was_peer, toggle) ==
    CASE ~was_peer = FALSE /\ toggle = TRUE -> Some(0)
      [] ~was_peer = TRUE /\ toggle = FALSE -> Some(USIZE_MAX)
      [] OTHER -> None

RECURSIVE notify_peers(_, _, _, _)
\* the loop of CalculatePeers over the direct node_idxs
notify_peers(st, node_idxs, self_route_coord, num_peers) ==
    IF node_idxs = <<>> THEN Ok(st)
    ELSE
    LET node_idx == Head(node_idxs)
        toggle == node_idx \in DOMAIN st.node.peer_list
        marked(r, session) ==
            IF ~r.ok THEN r
            ELSE IF ~is_direct(session) THEN Err(r.st, "NotDirectType")
            ELSE notify_peers(
                    [r.st EXCEPT !.node.remotes[node_idx].session =
                                    Some(set_peer(session, toggle))],
                    Tail(node_idxs), self_route_coord, num_peers)
        notified(session, rank) ==
            marked(IF rank = None THEN Ok(st)
                   ELSE send_packet(st, node_idx,
                            PeerNotify(Unwrap(rank), self_route_coord, num_peers,
                                       session.tracker.dist_avg)),
                   session)
        visited(session) == notified(session, notifies(is_peer(session), toggle))
    IN  IF st.node.remotes[node_idx].session = None THEN Err(st, "NoSessionError")
        ELSE visited(Unwrap(st.node.remotes[node_idx].session))

action_CalculatePeers(st) ==
    LET published(r, self_route_coord, num_peers) ==
            IF ~r.ok THEN r
            ELSE IF num_peers >= TARGET_PEER_COUNT /\ r.st.node.is_public
                        /\ r.st.node.public_route # r.st.node.route_coord
            THEN Ok([r.st EXCEPT
                        !.node.public_route = r.st.node.route_coord,
                        !.outgoing = Append(@, gen_request(r.st.node.net_addr,
                            [type |-> "RouteCoordDHTWrite",
                             node_id |-> r.st.node.node_id,
                             route |-> Some(self_route_coord)]))])
            ELSE r
        collected(self_route_coord, direct, peer_list) ==
            published(notify_peers([st EXCEPT !.node.peer_list = peer_list], direct,
                                   self_route_coord,
                                   Cardinality(DOMAIN peer_list)),
                      self_route_coord, Cardinality(DOMAIN peer_list))
        sorted(self_route_coord, direct) ==
            collected(self_route_coord, direct,
                      BiCollect(peer_limit(viable_peers(st.node, direct))))
    IN  IF st.node.route_coord = None THEN Err(st, "NoCalculatedRouteCoord")
        ELSE sorted(Unwrap(st.node.route_coord), direct_nodes(st.node))

\* the actions that wait for the coordinate of a remote
awaits_route_coord(st, act) ==
    Ok(pushed(pushed(st, [type |-> "RequestRouteCoord", node_id |-> act.node_id]),
              Condition([type |-> "RemoteRouteCoord", node_id |-> act.node_id], act)))

action_Notify(st, act) ==
    IF act.node_id \notin DOMAIN st.node.remotes THEN Err(st, "InvalidNodeID")
    ELSE
    LET remote == st.node.remotes[act.node_id]
        pushes(p) ==
            IF p = None THEN Err(st, "SessionError")
            ELSE Ok([st EXCEPT !.outgoing = Append(@, Unwrap(p))])
    IN  IF remote.route_coord = None THEN awaits_route_coord(st, act)
        ELSE IF remote.session = None THEN Err(st, "NoSessionError")
        ELSE pushes(session_gen_packet(Unwrap(remote.session),
                        [type |-> "Notify", recipient |-> act.node_id,
                         data |-> act.data, sender |-> st.node.node_id],
                        st.node, MaxWraps))

action_ConnectTraversed(st, act) ==
    LET added(st1) ==
            IF st1.node.remotes[act.node_id].route_coord = None
            THEN awaits_route_coord(st1, act)
            ELSE connect(st1, act.node_id,
                    SessionType_traversed(
                        Unwrap(st1.node.remotes[act.node_id].route_coord)),
                    <<[type |-> "Data", data |-> "Hello!"]>>)
    IN  added([st EXCEPT !.node = add_remote(@, act.node_id)])

action_ConnectRouted(st, act) ==
    IF st.node.route_coord = None THEN Err(st, "NoCalculatedRouteCoord")
    ELSE LET st1 == [st EXCEPT !.node = add_remote(@, act.node_id)]
         IN  IF st1.node.remotes[act.node_id].route_coord = None
             THEN awaits_route_coord(st1, act)
             ELSE Ok(st1)

\* NodeActionCondition::check: [ok, value]
condition_check(condition, node) ==
    CASE condition.type = "RunAt" -> [ok |-> TRUE, value |-> node.ticks >= condition.time]
      [] condition.node_id \notin DOMAIN node.remotes -> [ok |-> FALSE, value |-> FALSE]
      [] condition.type = "Session" ->
            [ok |-> TRUE, value |-> session_active(node.remotes[condition.node_id])]
      [] OTHER ->
            [ok |-> TRUE, value |-> node.remotes[condition.node_id].route_coord # None]

\* does the condition hold at the node: there is a remote of the NodeID with
\* an active session (Session) or a known coordinate (RemoteRouteCoord), or
\* the tick is reached (RunAt)
condition_holds(condition, node) ==
    /\ condition.type # "RunAt" => condition.node_id \in DOMAIN node.remotes
    /\ condition_check(condition, node).value

\* parse_action: ret is Some(action) for an action that stays in the list;
\* an action without an arm panics (unimplemented!())
parse_action(st, act) ==
    LET t == act.type
    IN  CASE t = "Bootstrap" ->
                Ok(pushed(st, Connect(act.node_id, act.net_addr,
                                      <<ExchangeInfo(st.node.route_coord, 0, 0)>>)))
          [] t = "Connect" ->
                connect(st, act.node_id, SessionType_direct(act.net_addr), act.packets)
          [] t = "UpdateRemote" -> action_UpdateRemote(st, act)
          [] t = "CalcRouteCoord" ->
                IF st.node.deux_ex_data = None
                THEN Err(st, "no deus ex machina data")
                ELSE Ok(pushed([st EXCEPT !.node.route_coord = st.node.deux_ex_data],
                               [type |-> "CalculatePeers"]))
          [] t = "ExchangeInformation" ->
                IF act.node_id \notin DOMAIN st.node.remotes
                THEN Err(st, "InvalidNodeID")
                ELSE IF st.node.remotes[act.node_id].session = None
                THEN Err(st, "NoSessionError")
                ELSE send_packet(st, act.node_id,
                        ExchangeInfo(st.node.route_coord,
                            Cardinality(DOMAIN st.node.peer_list),
                            Unwrap(st.node.remotes[act.node_id].session).tracker.dist_avg))
          [] t = "CalculatePeers" -> action_CalculatePeers(st)
          [] t = "Notify" -> action_Notify(st, act)
          [] t = "RequestRouteCoord" ->
                Ok([st EXCEPT !.outgoing = Append(@, gen_request(st.node.net_addr,
                        [type |-> "RouteCoordDHTRead", node_id |-> act.node_id,
                         route |-> None]))])
          [] t = "ConnectTraversed" -> action_ConnectTraversed(st, act)
          [] t = "ConnectRouted" -> action_ConnectRouted(st, act)
          [] t = "Packet" ->
                IF act.node_id \notin DOMAIN st.node.remotes
                THEN Err(st, "InvalidNodeID")
                ELSE send_packet(st, act.node_id, act.packet)
          [] t = "Condition" ->
                LET c == condition_check(act.condition, st.node)
                IN  IF ~c.ok THEN Err(st, "InvalidNodeID")
                    ELSE IF c.value THEN OkSome(st, act.action)
                    ELSE OkSome(st, act)
          [] OTHER -> Err([st EXCEPT !.panic = TRUE], "panic")

RECURSIVE parse_incoming(_, _)
\* the first loop of Node::tick: every incoming packet is parsed; an error is
\* logged and the loop goes on
parse_incoming(st, incoming) ==
    IF incoming = <<>> THEN st
    ELSE LET parsed(r) ==
                IF r.ok /\ r.ret # None
                THEN parse_node_packet(r.st, Unwrap(r.ret)[1], Unwrap(r.ret)[2]).st
                ELSE r.st
         IN  parse_incoming(parsed(parse_packet(st, Head(incoming))), Tail(incoming))

\* the remotes with an established Direct session and a known coordinate
DirectWithCoord(node) ==
    {idx \in DOMAIN node.remotes :
        /\ node.remotes[idx].session # None
        /\ is_direct(Unwrap(node.remotes[idx].session))
        /\ node.remotes[idx].route_coord # None}

\* the outgoing-peer bit of every remote with a Direct session
DirectPeered(node) ==
    LET direct == {idx \in DOMAIN node.remotes :
                      /\ node.remotes[idx].session # None
                      /\ is_direct(Unwrap(node.remotes[idx].session))}
    IN  [idx \in direct |-> is_peer(Unwrap(node.remotes[idx].session))]

\* the remotes with a Direct session that one of the packets is a PeerNotify
\* for: the packet goes to the net_addr of the session under its session_id
PeerNotified(node, packets) ==
    {idx \in DOMAIN DirectPeered(node) :
        LET session == Unwrap(node.remotes[idx].session)
        IN  \E i \in DOMAIN packets :
                /\ packets[i].data # None
                /\ packets[i].dest_addr = session.session_type.net_addr
                /\ Unwrap(packets[i].data).type = "Session"
                /\ Unwrap(packets[i].data).session_id = session.session_id
                /\ Unwrap(packets[i].data).packet.type = "PeerNotify"}

\* is the packet the request RouteCoordDHTWrite
IsDHTWrite(packet) ==
    packet.request # None /\ Unwrap(packet.request).type = "RouteCoordDHTWrite"

RECURSIVE run_actions(_, _, _)
\* the second loop of Node::tick over the actions moved out of action_list:
\* [st, kept], kept being the actions that stay.  The ghost log records for
\* every action whether it failed, how many packets and how many
\* RouteCoordDHTWrite requests it pushed, the published and the current
\* coordinate before it, the peers before and after it, the action it
\* returned and the actions it pushed; for CalculatePeers also the tracked
\* distance of every remote with a Direct session and a known coordinate, the
\* outgoing-peer bit of every remote with a Direct session before and after
\* it, and the remotes it sent a PeerNotify; for a Condition whether its
\* condition held when it was checked.
run_actions(st, actions, kept) ==
    IF actions = <<>> THEN [st |-> st, kept |-> kept]
    ELSE LET ran(r) ==
                run_actions(
                    Logged(r.st,
                        [ev |-> "action", type |-> Head(actions).type,
                         action |-> Head(actions),
                         ret |-> IF r.ok THEN r.ret ELSE None,
                         produced |-> SubSeq(r.st.out_actions,
                                             Len(st.out_actions) + 1,
                                             Len(r.st.out_actions)),
                         ok |-> r.ok,
                         emitted |-> Len(r.st.outgoing) - Len(st.outgoing),
                         wrote |-> Len(SelectSeq(r.st.outgoing, IsDHTWrite))
                                    - Len(SelectSeq(st.outgoing, IsDHTWrite)),
                         viable |-> IF Head(actions).type = "CalculatePeers"
                                    THEN [idx \in DirectWithCoord(r.st.node) |->
                                            Unwrap(r.st.node.remotes[idx].session)
                                                .tracker.dist_avg]
                                    ELSE EmptyMap,
                         held |->
                            IF Head(actions).type = "Condition"
                            THEN condition_holds(Head(actions).condition, st.node)
                            ELSE FALSE,
                         peered_before |->
                            IF Head(actions).type = "CalculatePeers"
                            THEN DirectPeered(st.node) ELSE EmptyMap,
                         peered |->
                            IF Head(actions).type = "CalculatePeers"
                            THEN DirectPeered(r.st.node) ELSE EmptyMap,
                         notified |->
                            IF Head(actions).type = "CalculatePeers"
                            THEN PeerNotified(r.st.node,
                                    SubSeq(r.st.outgoing, Len(st.outgoing) + 1,
                                           Len(r.st.outgoing)))
                            ELSE {},
                         public_before |-> st.node.public_route,
                         coord_before |-> st.node.route_coord,
                         peers_before |-> st.node.peer_list,
                         peers |-> r.st.node.peer_list]),
                    Tail(actions),
                    IF r.ok /\ r.ret # None THEN Append(kept, Unwrap(r.ret))
                    ELSE kept)
         IN  ran(parse_action(st, Head(actions)))

\* the new actions run before the actions that stay
requeue_new_first(kept, new_actions) == new_actions \o kept

\* self.action_list = (the actions returned); self.action_list.append(&mut
\* new_actions)
requeue(kept, new_actions) == kept \o new_actions

\* Node::tick: [node, outgoing, log, used, panic]; the ghost field drained
\* holds the actions moved out of action_list
Node_tick(node, incoming, rnd) ==
    LET ticked(ran, drained) ==
            [node |-> [ran.st.node EXCEPT
                            !.action_list = requeue(ran.kept, ran.st.out_actions),
                            !.ticks = @ + 1],
             outgoing |-> ran.st.outgoing, log |-> ran.st.log,
             used |-> ran.st.used, panic |-> ran.st.panic,
             drained |-> drained]
        acted(parsed) ==
            ticked(run_actions([parsed EXCEPT !.node.action_list = <<>>],
                               parsed.node.action_list, <<>>),
                   parsed.node.action_list)
    IN  acted(parse_incoming(Context(node, rnd), incoming))

\* serde of a RemoteNode: pending_session is #[serde(skip)]
RemoteNode_serialize(remote) ==
    [f \in DOMAIN remote \ {"pending_session"} |-> remote[f]]

RemoteNode_deserialize(data) ==
    [f \in DOMAIN data \cup {"pending_session"} |->
        IF f = "pending_session" THEN None ELSE data[f]]

\* serde of a Node: action_list is #[serde(skip)] and comes back as the
\* Default of ActionVec (route_map, skipped as well, is not in the model)
Node_serialize(node) ==
    [f \in DOMAIN node \ {"action_list"} |->
        IF f = "remotes"
        THEN [i \in DOMAIN node.remotes |-> RemoteNode_serialize(node.remotes[i])]
        ELSE node[f]]

Node_deserialize(data) ==
    [f \in DOMAIN data \cup {"action_list"} |->
        IF f = "action_list" THEN <<>>
        ELSE IF f = "remotes"
        THEN [i \in DOMAIN data.remotes |-> RemoteNode_deserialize(data.remotes[i])]
        ELSE data[f]]

(***************************************************************************)
(* The latency router (src/src/internet/router.rs)                          *)
(***************************************************************************)
\* ((dx*dx + dy*dy) as f64).sqrt() as i32
ISqrt(n) == CHOOSE k \in 0..n : k * k <= n /\ (k + 1) * (k + 1) > n

\* gen_range(-variance, variance) with variance 1: the upper end is excluded
Jitter == {-1, 0}

\* a latency no packet lives to see
generate_never(positions, src_addr, dest_addr, jitter) == 1000

\* EuclidianLatencyCalculator::generate with the jitter drawn
generate(positions, src_addr, dest_addr, jitter) ==
    ISqrt(DistSq(positions[src_addr], positions[dest_addr])) + jitter

RECURSIVE add_packets(_, _, _, _)
\* add_packets: each packet joins the stream of its destination with its
\* latency; jitters holds the draw made for each packet.  The ghost fields
\* delay and sent keep the latency computed and the round of the call.
add_packets(r, packets, jitters, sent) ==
    IF packets = <<>> THEN r
    ELSE LET packet == Head(packets)
             latency == IF packet.dest_addr \in DOMAIN r.positions
                        THEN generate(r.positions, packet.src_addr,
                                      packet.dest_addr, Head(jitters))
                        ELSE Head(jitters)
             stream == IF packet.dest_addr \in DOMAIN r.packet_map
                       THEN r.packet_map[packet.dest_addr] ELSE <<>>
         IN  add_packets(
                [r EXCEPT !.packet_map = MapInsert(@, packet.dest_addr,
                    Append(stream, [packet |-> packet, ticks |-> latency,
                                    delay |-> latency, sent |-> sent]))],
                Tail(packets), Tail(jitters), sent)

RECURSIVE SelectDue(_, _)
\* the packets of a stream whose remaining ticks are (due) or are not (~due)
\* at most 0, in order
SelectDue(stream, due) ==
    IF stream = <<>> THEN <<>>
    ELSE IF (Head(stream).ticks <= 0) = due
    THEN <<Head(stream)>> \o SelectDue(Tail(stream), due)
    ELSE SelectDue(Tail(stream), due)

\* tick_node that ages the packets of every destination
tick_node_ages_all(r, destination) ==
    LET aged(d) == [i \in 1..Len(r.packet_map[d]) |->
                        [r.packet_map[d][i] EXCEPT !.ticks = @ - 1]]
        due == IF destination \in DOMAIN r.packet_map
               THEN SelectDue(aged(destination), TRUE) ELSE <<>>
    IN  [router |-> [r EXCEPT !.packet_map =
                        [d \in DOMAIN r.packet_map |->
                            IF d = destination THEN SelectDue(aged(d), FALSE)
                            ELSE aged(d)]],
         incoming |-> [i \in 1..Len(due) |-> due[i].packet],
         arrived |-> [i \in 1..Len(due) |->
                        [src_addr |-> due[i].packet.src_addr,
                         delay |-> due[i].delay, sent |-> due[i].sent]]]

\* tick_node: [router, incoming]; the ghost field arrived holds the delay and
\* the round of sending of every packet returned
tick_node(r, destination) ==
    IF destination \notin DOMAIN r.packet_map
    THEN [router |-> r, incoming |-> <<>>, arrived |-> <<>>]
    ELSE LET aged == [i \in 1..Len(r.packet_map[destination]) |->
                        [r.packet_map[destination][i] EXCEPT !.ticks = @ - 1]]
             due == SelectDue(aged, TRUE)
         IN  [router |-> [r EXCEPT !.packet_map[destination] = SelectDue(aged, FALSE)],
              incoming |-> [i \in 1..Len(due) |-> due[i].packet],
              arrived |-> [i \in 1..Len(due) |->
                            [src_addr |-> due[i].packet.src_addr,
                             delay |-> due[i].delay, sent |-> due[i].sent]]]

(***************************************************************************)
(* The host simulator (src/src/internet/mod.rs)                             *)
(***************************************************************************)
\* a packet that keeps the source address the node wrote
return_address_kept(packet, node_net_addr) == packet

\* packet.src_addr = node_net_addr
return_address(packet, node_net_addr) == [packet EXCEPT !.src_addr = node_net_addr]

\* a directory that ignores the write
directory_kept(d, node_id, route_coord) == d

\* route_coord_dht.insert(node_id, route_coord)
directory_insert(d, node_id, route_coord) == MapInsert(d, node_id, route_coord)

RECURSIVE handle_outgoing(_, _, _, _)
\* the loop of NetSim::tick over the packets a node returned: the source
\* address is rewritten and a request is answered from the directory;
\* [packets, dht, panic]
handle_outgoing(packets, node_net_addr, d, done) ==
    IF packets = <<>> THEN [packets |-> done, dht |-> d, panic |-> FALSE]
    ELSE
    LET packet == return_address(Head(packets), node_net_addr)
    IN  IF packet.request = None
        THEN handle_outgoing(Tail(packets), node_net_addr, d, Append(done, packet))
        ELSE
        LET request == Unwrap(packet.request)
        IN  CASE request.type = "RouteCoordDHTRead" ->
                    handle_outgoing(Tail(packets), node_net_addr, d,
                        Append(done, [packet EXCEPT
                            !.dest_addr = node_net_addr,
                            !.request = Some([type |-> "RouteCoordDHTReadResponse",
                                node_id |-> request.node_id,
                                route |-> IF request.node_id \in DOMAIN d
                                          THEN Some(d[request.node_id])
                                          ELSE None])]))
              [] request.type = "RouteCoordDHTWrite" ->
                    handle_outgoing(Tail(packets), node_net_addr,
                        directory_insert(d, request.node_id, Unwrap(request.route)),
                        Append(done, [packet EXCEPT
                            !.dest_addr = node_net_addr,
                            !.request = Some([type |-> "RouteCoordDHTWriteResponse",
                                node_id |-> request.node_id,
                                route |-> IF request.node_id \in DOMAIN d
                                          THEN Some(d[request.node_id])
                                          ELSE None])]))
              [] OTHER -> [packets |-> done, dht |-> d, panic |-> TRUE]

NumNodes == 2        \* nodes of the network
MaxSimTicks == 6     \* rounds of NetSim::tick
MaxCommands == 2     \* node commands given between the rounds
MaxCommandTick == 1  \* the last round before which a command is given
MaxDraws == 2        \* values rand::random() returns in one tick of a node
MaxRandom == 2       \* the values rand::random() returns are 1..MaxRandom

NetAddrs == 0..(NumNodes - 1)

\* the NodeID given to the node added at an address: the first node is node 0
NodeIDOf(net_addr) == IF net_addr = 0 THEN 0 ELSE 2 * net_addr + 1

\* positions the router draws for the nodes
Field == {<<0, 0>>, <<2, 0>>}

\* the draws of a tick: rnd, of which the tick used the first `used`
Draws(len) == [1..len -> 1..MaxRandom]
DrawsFit(rnd, used) == used <= Len(rnd) /\ \A i \in (used + 1)..Len(rnd) : rnd[i] = 1

Orderings(set) ==
    {q \in [1..Cardinality(set) -> set] : \A i, j \in DOMAIN q : q[i] = q[j] => i = j}

\* NetSim::new, then the nodes added as by `add <id>`; the order in which the
\* HashMap of nodes is iterated and the hasher state of every node are fixed
\* here
InitNet ==
    /\ tracker = <<>> /\ now = 0 /\ th = <<>>
    /\ \E iter_desc \in BOOLEAN :
            nodes = [a \in NetAddrs |-> Node_new(NodeIDOf(a), a, iter_desc)]
    /\ \E positions \in [NetAddrs -> Field] :
            router = [positions |-> positions, packet_map |-> EmptyMap]
    /\ dht = EmptyMap
    /\ \E order \in Orderings(NetAddrs) :
            sim = [order |-> order, next |-> 1, ticks |-> 0, halted |-> FALSE]
    /\ nh = [log |-> [a \in NetAddrs |-> <<>>],
             arrived |-> [a \in NetAddrs |-> <<>>],
             handed |-> [a \in NetAddrs |-> <<>>],
             inits |-> [a \in NetAddrs |-> 0],
             sent |-> [a \in NetAddrs |-> {}],
             sent_before |-> [a \in NetAddrs |-> {}],
             commands |-> <<>>]

\* is the packet a ConnectionInit within a session
IsConnectionInit(packet) ==
    /\ packet.data # None
    /\ Unwrap(packet.data).type = "Session"
    /\ Unwrap(packet.data).packet.type = "ConnectionInit"

\* one iteration of the inner loop of NetSim::tick: the node next in order
\* receives its due packets, ticks, and its packets are handed to the router;
\* rounds bounds the rounds of a behaviour, jitter is the set the latency
\* jitter is drawn from and draws the set of the values rand::random() may
\* return in the tick (padded: the draws the tick does not use are 1).  The
\* ghost field nh.inits counts the ConnectionInit packets handed to the tick
\* of a node.
TickNodeDrawn(rounds, jitter, draws, padded) ==
    /\ ~sim.halted
    /\ sim.ticks < rounds
    /\ LET a == sim.order[sim.next]
           routed(due, r, out) ==
                \E jitters \in [1..Len(out.packets) -> jitter] :
                    /\ router' = add_packets(due.router, out.packets, jitters,
                                              sim.ticks)
                    /\ nodes' = [nodes EXCEPT ![a] =
                            [r.node EXCEPT !.deux_ex_data = Some(router.positions[a])]]
                    /\ dht' = out.dht
                    /\ sim' = [sim EXCEPT
                            !.next = IF sim.next = Len(sim.order) THEN 1 ELSE @ + 1,
                            !.ticks = IF sim.next = Len(sim.order) THEN @ + 1 ELSE @,
                            !.halted = r.panic \/ out.panic]
                    /\ nh' = [nh EXCEPT
                            !.log[a] = r.log,
                            !.inits[a] = @ + Len(SelectSeq(due.incoming,
                                                           IsConnectionInit)),
                            !.handed[a] = [i \in DOMAIN out.packets |->
                                [wrote |-> r.outgoing[i].src_addr,
                                 packet |-> out.packets[i]]],
                            !.arrived[a] = [i \in DOMAIN due.arrived |->
                                [src_addr |-> due.arrived[i].src_addr,
                                 delay |-> due.arrived[i].delay,
                                 sent |-> due.arrived[i].sent,
                                 response |-> due.incoming[i].request # None,
                                 at |-> sim.ticks]],
                            !.sent_before[a] = nh.sent[a],
                            !.sent[a] = @ \cup
                                {<<r.log[i].recipient, r.log[i].session_id>> :
                                    i \in {j \in DOMAIN r.log :
                                            r.log[j].ev = "handshake_sent"}}]
           ticked(due, rnd, r) ==
                /\ IF padded THEN DrawsFit(rnd, r.used) ELSE r.used <= Len(rnd)
                /\ routed(due, r, handle_outgoing(r.outgoing, a, dht, <<>>))
           delivered(due) ==
                \E rnd \in draws :
                    ticked(due, rnd, Node_tick(nodes[a], due.incoming, rnd))
       IN  delivered(tick_node(router, a))
    /\ UNCHANGED trackerVars

\* the iteration with every jitter and every draw
TickNodeWithin(rounds) == TickNodeDrawn(rounds, Jitter, Draws(MaxDraws), TRUE)

SimTickNode == TickNodeWithin(MaxSimTicks)

\* the commands `node <addr> connect <id> <addr>` and `node <addr> traverse
\* <id>` of src/src/main.rs
Commands(a) ==
    UNION {{Connect(NodeIDOf(b), b, <<>>),
            [type |-> "ConnectTraversed", node_id |-> NodeIDOf(b)]} :
                b \in NetAddrs \ {a}}

\* a command given between two rounds: node.action(...)
Command ==
    /\ ~sim.halted
    /\ sim.next = 1
    /\ Len(nh.commands) < MaxCommands
    /\ sim.ticks <= MaxCommandTick
    /\ \E a \in NetAddrs : \E act \in Commands(a) :
        /\ nodes' = [nodes EXCEPT ![a].action_list = Append(@, act)]
        /\ nh' = [nh EXCEPT !.commands =
                    Append(@, [net_addr |-> a, action |-> act, ticks |-> sim.ticks])]
    /\ UNCHANGED <<router, dht, sim>>
    /\ UNCHANGED trackerVars

NextNet == SimTickNode \/ Command

SpecNet == InitNet /\ [][NextNet]_vars

(***************************************************************************)
(* Two runs of the simulator side by side (SpecTwin): the same seed (the    *)
(* positions drawn by add_node from the seeded rng), the same order of      *)
(* add_node calls and the same actions given to the nodes.  What the code   *)
(* does not take from the seeded rng is drawn in each run on its own: the   *)
(* order in which the HashMap of nodes is iterated, the session ids of      *)
(* rand::random() and the jitter of rand::thread_rng().                     *)
(***************************************************************************)
MaxTwinTicks == 3    \* rounds of NetSim::tick in each of the two runs

Runs == 1..2

\* one iteration of the inner loop of NetSim::tick in a run [nodes, router,
\* dht, delivered] for the node at address a: the runs it can lead to, one
\* for every jitter of the packets handed to the router.  The ghost field
\* delivered collects (tick, destination address, packet) of the round.
RunTick(run, a, rnd, ticks) ==
    LET routed(due, r, out) ==
            {[nodes |-> [run.nodes EXCEPT ![a] =
                            [r.node EXCEPT
                                !.deux_ex_data = Some(run.router.positions[a])]],
              router |-> add_packets(due.router, out.packets, jitters, ticks),
              dht |-> out.dht,
              delivered |-> run.delivered
                    \o [i \in DOMAIN due.incoming |-> <<ticks, a, due.incoming[i]>>]] :
                jitters \in [1..Len(out.packets) -> Jitter]}
        ticked(due, r) ==
            IF DrawsFit(rnd, r.used) /\ ~r.panic
            THEN routed(due, r, handle_outgoing(r.outgoing, a, run.dht, <<>>))
            ELSE {}
        delivered(due) == ticked(due, Node_tick(run.nodes[a], due.incoming, rnd))
    IN  delivered(tick_node(run.router, a))

InitTwin ==
    /\ tracker = <<>> /\ now = 0 /\ th = <<>>
    /\ \E iter_desc \in BOOLEAN : \E connecting \in NetAddrs :
            nodes = [run \in Runs |-> [a \in NetAddrs |->
                        [Node_new(NodeIDOf(a), a, iter_desc) EXCEPT
                            !.action_list =
                                IF a = connecting
                                THEN <<Connect(NodeIDOf(1 - a), 1 - a, <<>>)>>
                                ELSE <<>>]]]
    /\ \E positions \in [NetAddrs -> Field] :
            router = [run \in Runs |-> [positions |-> positions, packet_map |-> EmptyMap]]
    /\ dht = [run \in Runs |-> EmptyMap]
    /\ \E orders \in [Runs -> Orderings(NetAddrs)] :
            sim = [orders |-> orders, next |-> 1, ticks |-> 0]
    /\ nh = [delivered |-> [run \in Runs |-> <<>>]]

\* the run of the state
TwinRun(run) ==
    [nodes |-> nodes[run], router |-> router[run], dht |-> dht[run],
     delivered |-> IF sim.next = 1 THEN <<>> ELSE nh.delivered[run]]

\* both runs make the next iteration of the inner loop of NetSim::tick
TwinTick ==
    /\ sim.ticks < MaxTwinTicks
    /\ \E rnd \in [Runs -> Draws(MaxDraws)] :
       \E after \in [Runs -> UNION {RunTick(TwinRun(run), sim.orders[run][sim.next],
                                            rnd[run], sim.ticks) : run \in Runs}] :
            /\ \A run \in Runs :
                    after[run] \in RunTick(TwinRun(run), sim.orders[run][sim.next],
                                           rnd[run], sim.ticks)
            /\ nodes' = [run \in Runs |-> after[run].nodes]
            /\ router' = [run \in Runs |-> after[run].router]
            /\ dht' = [run \in Runs |-> after[run].dht]
            /\ nh' = [delivered |-> [run \in Runs |-> after[run].delivered]]
    /\ sim' = [sim EXCEPT
                !.next = IF sim.next = NumNodes THEN 1 ELSE @ + 1,
                !.ticks = IF sim.next = NumNodes THEN @ + 1 ELSE @]
    /\ UNCHANGED trackerVars

NextTwin == TwinTick

SpecTwin == InitTwin /\ [][NextTwin]_vars

(***************************************************************************)
(* The bootstrap of two nodes (SpecBoot): node 1 is given the action        *)
(* Bootstrap(N0.id, N0.addr) and the simulator keeps ticking.               *)
(***************************************************************************)
MaxBootTicks == 10   \* rounds of NetSim::tick after the Bootstrap command

InitBoot ==
    /\ tracker = <<>> /\ now = 0 /\ th = <<>>
    /\ \E iter_desc \in BOOLEAN :
            nodes = [a \in NetAddrs |->
                        [Node_new(NodeIDOf(a), a, iter_desc) EXCEPT
                            !.action_list =
                                IF a = 1
                                THEN <<[type |-> "Bootstrap", node_id |-> NodeIDOf(0),
                                        net_addr |-> 0]>>
                                ELSE <<>>]]
    /\ \E positions \in [NetAddrs -> Field] :
            router = [positions |-> positions, packet_map |-> EmptyMap]
    /\ dht = EmptyMap
    /\ \E order \in Orderings(NetAddrs) :
            sim = [order |-> order, next |-> 1, ticks |-> 0, halted |-> FALSE]
    /\ nh = [log |-> [a \in NetAddrs |-> <<>>],
             arrived |-> [a \in NetAddrs |-> <<>>],
             handed |-> [a \in NetAddrs |-> <<>>],
             inits |-> [a \in NetAddrs |-> 0],
             sent |-> [a \in NetAddrs |-> {}],
             sent_before |-> [a \in NetAddrs |-> {}],
             commands |-> <<[net_addr |-> 1, ticks |-> 0,
                             action |-> [type |-> "Bootstrap", node_id |-> NodeIDOf(0),
                                         net_addr |-> 0]]>>]

BootTick == TickNodeWithin(MaxBootTicks)

NextBoot == BootTick

\* the loop of NetSim::tick moves on to the node next in order: what a
\* BootTick step does to the position of the simulator
Advance ==
    /\ ~sim.halted
    /\ sim.ticks < MaxBootTicks
    /\ \E halted \in BOOLEAN :
        sim' = [sim EXCEPT
                    !.next = IF sim.next = Len(sim.order) THEN 1 ELSE @ + 1,
                    !.ticks = IF sim.next = Len(sim.order) THEN @ + 1 ELSE @,
                    !.halted = halted]

\* the simulator keeps ticking: the loop is never suspended, so a round that
\* can be run is run
SpecBoot == InitBoot /\ [][NextBoot]_vars /\ WF_sim(Advance)

(***************************************************************************)
(* Three nodes left alone (SpecQuiet): the nodes 1 and 2 are given Bootstrap *)
(* and Connect actions before the first round, and the simulator keeps      *)
(* ticking with no further action.                                          *)
(***************************************************************************)
MaxQuietTicks == 30   \* rounds of NetSim::tick

QuietAddrs == 0..2

\* the actions injected into the node of an address
Injections(a) ==
    IF a = 0 THEN {<<>>}
    ELSE {<<>>,
          <<[type |-> "Bootstrap", node_id |-> NodeIDOf(0), net_addr |-> 0]>>,
          <<[type |-> "Bootstrap", node_id |-> NodeIDOf(0), net_addr |-> 0],
            Connect(NodeIDOf(3 - a), 3 - a, <<>>)>>}

InitQuiet ==
    /\ tracker = <<>> /\ now = 0 /\ th = <<>>
    /\ \E iter_desc \in BOOLEAN :
       \E injected \in [QuietAddrs -> UNION {Injections(a) : a \in QuietAddrs}] :
            /\ \A a \in QuietAddrs : injected[a] \in Injections(a)
            /\ nodes = [a \in QuietAddrs |->
                            [Node_new(NodeIDOf(a), a, iter_desc) EXCEPT
                                !.action_list = injected[a]]]
    /\ \E positions \in [QuietAddrs -> Field] :
            router = [positions |-> positions, packet_map |-> EmptyMap]
    /\ dht = EmptyMap
    /\ \E order \in Orderings(QuietAddrs) :
            sim = [order |-> order, next |-> 1, ticks |-> 0, halted |-> FALSE]
    /\ nh = [log |-> [a \in QuietAddrs |-> <<>>],
             arrived |-> [a \in QuietAddrs |-> <<>>],
             handed |-> [a \in QuietAddrs |-> <<>>],
             inits |-> [a \in QuietAddrs |-> 0],
             sent |-> [a \in QuietAddrs |-> {}],
             sent_before |-> [a \in QuietAddrs |-> {}],
             commands |-> <<>>]

\* the values rand::random() returns in a tick of the node next in order:
\* no value is returned twice to a node
QuietDraws ==
    LET a == sim.order[sim.next]
    IN  {<<10 * nodes[a].ticks + a + 1, 10 * nodes[a].ticks + a + 5>>}

\* the latency of a packet is the distance of the two nodes
QuietJitter == {0}

QuietTick == TickNodeDrawn(MaxQuietTicks, QuietJitter, QuietDraws, FALSE)

NextQuiet == QuietTick

\* the loop of NetSim::tick moves on to the node next in order
QuietAdvance ==
    /\ ~sim.halted
    /\ sim.ticks < MaxQuietTicks
    /\ \E halted \in BOOLEAN :
        sim' = [sim EXCEPT
                    !.next = IF sim.next = Len(sim.order) THEN 1 ELSE @ + 1,
                    !.ticks = IF sim.next = Len(sim.order) THEN @ + 1 ELSE @,
                    !.halted = halted]

\* the simulator keeps ticking: a round that can be run is run
SpecQuiet == InitQuiet /\ [][NextQuiet]_vars /\ WF_sim(QuietAdvance)

\* the session a node holds for a remote NodeID: Some(session_id) or None
SessionIDFor(node, node_id) ==
    IF node_id \in DOMAIN node.remotes /\ node.remotes[node_id].session # None
    THEN Some(Unwrap(node.remotes[node_id].session).session_id)
    ELSE None

(***************************************************************************)
(* SpecNode: one node and its environment.  The node is the node of address *)
(* SelfAddr; the environment hands it any packets and actions.  The node    *)
(* starts fresh, or MaxDirect remotes connect to it first: the remotes of    *)
(* addresses 2, 3, ... send it a Handshake in its first tick and then, one  *)
(* after the other, a ConnectionInit carrying their coordinates.            *)
(***************************************************************************)
MaxDirect == 11      \* remotes the connected node starts with
MaxEnvTicks == 2     \* ticks of the node after its start
MaxEnvEvents == 3    \* packets and actions the environment hands to the node
MaxIncoming == 2     \* packets arriving in one tick

SelfAddr == 1

\* the position of the node on the router's field, its deus ex data
SelfPosition == <<0, 0>>

\* the session id and the coordinate of the remote of an address that
\* connected at the start
StartSessionID(net_addr) == 10 + net_addr
StartCoord(net_addr) == <<net_addr, 0>>

Envelope(src_addr, encryption) ==
    [package(encryption, SelfAddr) EXCEPT !.src_addr = src_addr]

SessionPacket(src_addr, session_id, packet) ==
    Envelope(src_addr, [type |-> "Session", session_id |-> session_id,
                        packet |-> packet])

\* the packets of tick t of the start of a node that count remotes connect
\* to: in tick 0 every remote sends its Handshake, in tick 2 * j the remote of
\* address j + 1 completes its connection, at the measured distance j
StartIncoming(count, t) ==
    IF t = 0
    THEN [j \in 1..count |->
            Envelope(j + 1, Handshake(NodeIDOf(SelfAddr), StartSessionID(j + 1),
                                      NodeIDOf(j + 1)))]
    ELSE IF t % 2 = 0 /\ t <= 2 * count
    THEN LET r == (t \div 2) + 1
         IN  <<SessionPacket(r, StartSessionID(r),
                    [type |-> "ConnectionInit", ping_id |-> 1,
                     packets |-> <<ExchangeInfo(Some(StartCoord(r)), 2, 0)>>])>>
    ELSE <<>>

\* the ticks of the start
StartLen(count) == IF count = 0 THEN 0 ELSE 2 * count + 3

InitNode ==
    /\ tracker = <<>> /\ now = 0 /\ th = <<>>
    /\ router = <<>> /\ dht = <<>>
    /\ \E iter_desc \in BOOLEAN :
            nodes = [a \in {SelfAddr} |->
                        Node_new(NodeIDOf(SelfAddr), SelfAddr, iter_desc)]
    /\ \E count \in {0, MaxDirect} :
            sim = [ticks |-> 0, events |-> 0, count |-> count, started |-> 0,
                   halted |-> FALSE]
    /\ nh = [log |-> [a \in {SelfAddr} |-> <<>>],
             queued |-> [a \in {SelfAddr} |-> <<>>],
             drained |-> [a \in {SelfAddr} |-> <<>>],
             sent |-> [a \in {SelfAddr} |-> {}],
             sent_before |-> [a \in {SelfAddr} |-> {}],
             commands |-> <<>>]

Self == nodes[SelfAddr]

\* the remotes the environment speaks for: one of a smaller NodeID that is
\* not connected at the start, and the closest one
EnvAddrs == {0, 2}

\* the session ids held for the remotes of EnvAddrs
HeldSessionIDs(addrs) ==
    {Unwrap(SessionIDFor(Self, NodeIDOf(r))) :
        r \in {q \in addrs : SessionIDFor(Self, NodeIDOf(q)) # None}}

\* a remote connected at the start to which Traverse packets are destined
FarAddr == 4

\* the node packets the remote of an address sends within its session: among
\* them Traverse packets for this node (with and without an origin), for the
\* coordinate of the sender and for the coordinate of the far remote
EnvNodePackets(r) ==
    {ExchangeInfo(Some(<<r, 1>>), 2, 1),
     PeerNotify(0, <<r, 2>>, 2, 1),
     [type |-> "RequestPings", requests |-> TARGET_PEER_COUNT, route_coord |-> None],
     [type |-> "ConnectionInit", ping_id |-> 1, packets |-> <<>>],
     TraversedPacket_new(SelfPosition, Handshake(NodeIDOf(SelfAddr), 1, NodeIDOf(r)),
                         Some(StartCoord(r))),
     TraversedPacket_new(SelfPosition, Handshake(NodeIDOf(SelfAddr), 1, NodeIDOf(r)),
                         None)}
    \cup {TraversedPacket_new(StartCoord(d), Handshake(NodeIDOf(FarAddr), 1, NodeIDOf(r)),
                               Some(StartCoord(r))) : d \in {r, FarAddr}}

\* the answers of the host to RouteCoordDHTRead: the coordinate of a remote
EnvResponses ==
    {gen_request(SelfAddr, [type |-> "RouteCoordDHTReadResponse",
                            node_id |-> NodeIDOf(r),
                            route |-> Some(StartCoord(r))]) : r \in EnvAddrs}

\* the packets the environment may deliver: an answer of the host, a Handshake
\* under a new session id or under one the node holds for another remote, a
\* Handshake whose recipient is the far remote, a
\* Notify, an Acknowledge, and the node packets of a remote under the session id the
\* node holds for it
EnvPackets ==
    EnvResponses \cup UNION {
        {Envelope(r, Handshake(NodeIDOf(SelfAddr), s, NodeIDOf(r))) :
            s \in {1} \cup HeldSessionIDs(EnvAddrs \ {r})}
        \cup {Envelope(r, Handshake(NodeIDOf(FarAddr), 1, NodeIDOf(r)))}
        \cup {Envelope(r, Notify(NodeIDOf(SelfAddr), 1, NodeIDOf(r)))}
        \cup {Envelope(r, Acknowledge(s, NodeIDOf(r), 1)) : s \in 1..MaxRandom}
        \cup {SessionPacket(r, s, p) :
                s \in HeldSessionIDs({r}), p \in EnvNodePackets(r)}
        : r \in EnvAddrs}

EnvActions ==
    UNION {{Connect(NodeIDOf(r), r, <<>>),
            [type |-> "ConnectTraversed", node_id |-> NodeIDOf(r)],
            [type |-> "RequestPeers", node_id |-> NodeIDOf(r), requests |-> 1]} :
                r \in EnvAddrs}

\* the sequences of at most n packets
EnvIncoming(n) == UNION {[1..len -> EnvPackets] : len \in 0..n}

\* the state after a tick of the node: the host sets the deus ex data after
\* node.tick, and the ghost variables record the tick
AfterTick(r) ==
    /\ nodes' = [nodes EXCEPT ![SelfAddr] =
                    [r.node EXCEPT !.deux_ex_data = Some(SelfPosition)]]
    /\ nh' = [nh EXCEPT
            !.log[SelfAddr] = r.log,
            !.queued[SelfAddr] = Self.action_list,
            !.drained[SelfAddr] = r.drained,
            !.sent_before[SelfAddr] = nh.sent[SelfAddr],
            !.sent[SelfAddr] = @ \cup
                {<<r.log[i].recipient, r.log[i].session_id>> :
                    i \in {j \in DOMAIN r.log : r.log[j].ev = "handshake_sent"}}]

\* one tick of the start
StartTick ==
    /\ sim.started < StartLen(sim.count)
    /\ AfterTick(Node_tick(Self, StartIncoming(sim.count, sim.started),
                           [j \in 1..sim.count |-> 1]))
    /\ sim' = [sim EXCEPT !.started = @ + 1]
    /\ UNCHANGED <<router, dht>>
    /\ UNCHANGED trackerVars

\* one tick of the node with the packets the environment delivers in it; a
\* tick that panics does not return: the program halts
EnvTick ==
    /\ sim.started = StartLen(sim.count)
    /\ ~sim.halted
    /\ sim.ticks < MaxEnvTicks
    /\ \E incoming \in EnvIncoming(Min2(MaxIncoming, MaxEnvEvents - sim.events)) :
       \E rnd \in Draws(MaxDraws) :
        LET ticked(r) ==
                /\ DrawsFit(rnd, r.used)
                /\ IF r.panic
                   THEN /\ UNCHANGED <<nodes, nh>>
                        /\ sim' = [sim EXCEPT !.halted = TRUE,
                                              !.events = @ + Len(incoming)]
                   ELSE /\ AfterTick(r)
                        /\ sim' = [sim EXCEPT !.ticks = @ + 1,
                                              !.events = @ + Len(incoming)]
        IN  ticked(Node_tick(Self, incoming, rnd))
    /\ UNCHANGED <<router, dht>>
    /\ UNCHANGED trackerVars

\* node.action(...) between two ticks
EnvAction ==
    /\ sim.started = StartLen(sim.count)
    /\ ~sim.halted
    /\ sim.events < MaxEnvEvents
    /\ \E act \in EnvActions :
        /\ nodes' = [nodes EXCEPT ![SelfAddr].action_list = Append(@, act)]
        /\ nh' = [nh EXCEPT !.commands =
                    Append(@, [net_addr |-> SelfAddr, action |-> act,
                               ticks |-> sim.ticks])]
    /\ sim' = [sim EXCEPT !.events = @ + 1]
    /\ UNCHANGED <<router, dht>>
    /\ UNCHANGED trackerVars

NextNode == StartTick \/ EnvTick \/ EnvAction

SpecNode == InitNode /\ [][NextNode]_vars

(***************************************************************************)
(* The router alone (SpecRouter): packets of any source and destination are *)
(* added and any address is ticked.  The data of a packet is its number in  *)
(* the order of adding.  nh.added holds the packets added, nh.returned the  *)
(* packets returned with the address ticked and the delay, nh.last the last *)
(* call.                                                                    *)
(***************************************************************************)
MaxRouterPackets == 3   \* packets added in a behaviour
MaxRouterBatch == 2     \* packets of one add_packets call
MaxRouterCalls == 4     \* tick_node calls in a behaviour

RouterAddrs == 0..1

\* the positions the router draws for the addresses: the delay of a packet
\* between the two is 1 or 2, of a packet to its own source -1 or 0
RouterPositions == [a \in RouterAddrs |-> <<2 * a, 0>>]

InitRouter ==
    /\ tracker = <<>> /\ now = 0 /\ th = <<>>
    /\ nodes = <<>> /\ dht = <<>>
    /\ router = [positions |-> RouterPositions, packet_map |-> EmptyMap]
    /\ sim = [calls |-> 0]
    /\ nh = [added |-> <<>>, returned |-> <<>>, last |-> [op |-> "new"]]

\* router.add_packets(packets)
RouterAdd ==
    /\ \E len \in 1..Min2(MaxRouterBatch, MaxRouterPackets - Len(nh.added)) :
       \E ends \in [1..len -> RouterAddrs \X RouterAddrs] :
       \E jitters \in [1..len -> Jitter] :
        LET packets == [i \in 1..len |->
                            [dest_addr |-> ends[i][2], src_addr |-> ends[i][1],
                             request |-> None, data |-> Some(Len(nh.added) + i)]]
        IN  /\ router' = add_packets(router, packets, jitters, sim.calls)
            /\ nh' = [nh EXCEPT !.added = @ \o packets,
                                !.last = [op |-> "add_packets"]]
    /\ UNCHANGED <<nodes, dht, sim>>
    /\ UNCHANGED trackerVars

\* router.tick_node(destination)
RouterTick ==
    /\ sim.calls < MaxRouterCalls
    /\ \E destination \in RouterAddrs :
        LET ticked(r) ==
                /\ router' = r.router
                /\ nh' = [nh EXCEPT
                        !.returned = @ \o
                            [i \in DOMAIN r.incoming |->
                                [packet |-> r.incoming[i], by |-> destination,
                                 delay |-> r.arrived[i].delay]],
                        !.last = [op |-> "tick_node", destination |-> destination]]
        IN  ticked(tick_node(router, destination))
    /\ sim' = [sim EXCEPT !.calls = @ + 1]
    /\ UNCHANGED <<nodes, dht>>
    /\ UNCHANGED trackerVars

NextRouter == RouterAdd \/ RouterTick

SpecRouter == InitRouter /\ [][NextRouter]_vars

(***************************************************************************)
(* The node table of the host (SpecLease): the commands `add <NodeID>` and  *)
(* `del <NetAddr>` of src/src/main.rs.  nh.last holds the last command and  *)
(* whether the node it added took the place of a live node.                 *)
(***************************************************************************)
MaxTableOps == 5     \* add and del commands in a behaviour
MaxNodeID == 2       \* the NodeIDs given to add are 0..MaxNodeID

\* NetSim::lease
lease(table) == Cardinality(DOMAIN table)

\* NetSim::add_node: HashMap::insert under the address of the node
add_node(table, node) == MapInsert(table, node.net_addr, node)

\* NetSim::del_node: HashMap::remove
del_node(table, net_addr) == [a \in (DOMAIN table) \ {net_addr} |-> table[a]]

InitLease ==
    /\ tracker = <<>> /\ now = 0 /\ th = <<>>
    /\ router = <<>> /\ dht = <<>>
    /\ nodes = EmptyMap
    /\ sim = [ops |-> 0]
    /\ nh = [last |-> [op |-> "new"]]

\* add <NodeID>: Node::new(node_id, internet.lease()), then add_node
AddNode ==
    /\ sim.ops < MaxTableOps
    /\ \E node_id \in 0..MaxNodeID : \E iter_desc \in BOOLEAN :
        /\ nodes' = add_node(nodes, Node_new(node_id, lease(nodes), iter_desc))
        /\ nh' = [nh EXCEPT !.last = [op |-> "add_node", net_addr |-> lease(nodes),
                                      replaced |-> lease(nodes) \in DOMAIN nodes]]
    /\ sim' = [sim EXCEPT !.ops = @ + 1]
    /\ UNCHANGED <<router, dht>>
    /\ UNCHANGED trackerVars

\* del <NetAddr>
DelNode ==
    /\ sim.ops < MaxTableOps
    /\ \E net_addr \in 0..MaxTableOps :
        /\ nodes' = del_node(nodes, net_addr)
        /\ nh' = [nh EXCEPT !.last = [op |-> "del_node", net_addr |-> net_addr]]
    /\ sim' = [sim EXCEPT !.ops = @ + 1]
    /\ UNCHANGED <<router, dht>>
    /\ UNCHANGED trackerVars

NextLease == AddNode \/ DelNode

SpecLease == InitLease /\ [][NextLease]_vars

(***************************************************************************)
(* One node and a peer that repeats RequestPings (SpecPings): the node      *)
(* starts as in SpecNode with MaxDirect remotes; the peer of PingAddr sends *)
(* RequestPings, and the node idles for spans of ticks between them.        *)
(* sim.served holds the time of the last request after which the node      *)
(* emitted WantPing packets, sim.served_before its value before the last    *)
(* tick.                                                                    *)
(***************************************************************************)
MaxPingRequests == 3   \* RequestPings packets in a behaviour
MaxIdles == 2          \* idle spans in a behaviour

PingAddr == 2

\* the ticks of an idle span: the next request comes 1000, 1500 or 2000 ticks
\* after the last one
IdleSpans == {999, 1499, 1999}

InitPings ==
    /\ tracker = <<>> /\ now = 0 /\ th = <<>>
    /\ router = <<>> /\ dht = <<>>
    /\ \E iter_desc \in BOOLEAN :
            nodes = [a \in {SelfAddr} |->
                        Node_new(NodeIDOf(SelfAddr), SelfAddr, iter_desc)]
    /\ sim = [count |-> MaxDirect, started |-> 0, requests |-> 0, idles |-> 0,
              served |-> None, served_before |-> None]
    /\ nh = [log |-> [a \in {SelfAddr} |-> <<>>],
             queued |-> [a \in {SelfAddr} |-> <<>>],
             drained |-> [a \in {SelfAddr} |-> <<>>],
             sent |-> [a \in {SelfAddr} |-> {}],
             sent_before |-> [a \in {SelfAddr} |-> {}],
             commands |-> <<>>]

\* the "request_pings" events of a ghost log
RequestEvents(log) == SelectSeq(log, LAMBDA e : e.ev = "request_pings")

\* a tick in which a RequestPings of the peer arrives
RequestTick ==
    /\ sim.started = StartLen(sim.count)
    /\ sim.requests < MaxPingRequests
    /\ \E route_coord \in {None, Some(StartCoord(PingAddr))} :
        LET ticked(r) ==
                /\ ~r.panic
                /\ AfterTick(r)
                /\ sim' = [sim EXCEPT
                        !.requests = @ + 1,
                        !.served_before = sim.served,
                        !.served = IF \E i \in DOMAIN r.log :
                                        /\ r.log[i].ev = "request_pings"
                                        /\ r.log[i].emitted > 0
                                   THEN Some(Self.ticks) ELSE @]
        IN  ticked(Node_tick(Self,
                <<SessionPacket(PingAddr, StartSessionID(PingAddr),
                    [type |-> "RequestPings", requests |-> TARGET_PEER_COUNT,
                     route_coord |-> route_coord])>>,
                [j \in 1..MaxDraws |-> 1]))
    /\ UNCHANGED <<router, dht>>
    /\ UNCHANGED trackerVars

\* a span of ticks without packets while no action is queued: each of them
\* only increments the tick counter
IdleTicks ==
    /\ sim.started = StartLen(sim.count)
    /\ sim.idles < MaxIdles
    /\ Self.action_list = <<>>
    /\ \E span \in IdleSpans :
        LET ticked(r) ==
                /\ ~r.panic
                /\ AfterTick([r EXCEPT !.node.ticks = Self.ticks + span])
        IN  ticked(Node_tick(Self, <<>>, [j \in 1..MaxDraws |-> 1]))
    /\ sim' = [sim EXCEPT !.idles = @ + 1, !.served_before = sim.served]
    /\ UNCHANGED <<router, dht>>
    /\ UNCHANGED trackerVars

NextPings == StartTick \/ RequestTick \/ IdleTicks

SpecPings == InitPings /\ [][NextPings]_vars

(***************************************************************************)
(* Claims about one node and its environment (SpecNode)                     *)
(***************************************************************************)
\* the remotes of a node that CalculatePeers may take as peers
ViableRemotes(node) ==
    {idx \in {node.direct_sorted[d] : d \in DOMAIN node.direct_sorted} :
        is_viable_peer(node.remotes[idx]) # None}

\* C1: every node's peer set holds at most TARGET_PEER_COUNT remotes.
C1_PeerLimit ==
    \A a \in DOMAIN nodes :
        Cardinality(DOMAIN nodes[a].peer_list) <= TARGET_PEER_COUNT

\* a node with more viable remotes than TARGET_PEER_COUNT has computed its
\* peers and holds TARGET_PEER_COUNT of them
C1_Witness ==
    \E a \in DOMAIN nodes :
        /\ Cardinality(ViableRemotes(nodes[a])) > TARGET_PEER_COUNT
        /\ Cardinality(DOMAIN nodes[a].peer_list) = TARGET_PEER_COUNT
        /\ \E i \in DOMAIN nh.log[a] :
                /\ nh.log[a][i].ev = "action"
                /\ nh.log[a][i].type = "CalculatePeers"
                /\ nh.log[a][i].ok

\* C2: after every tick, a node holds a Direct session to every remote of its
\* peer set, and knows the route coordinate of that remote.
C2_PeersDirectWithCoord ==
    \A a \in DOMAIN nodes : \A p \in DOMAIN nodes[a].peer_list :
        LET remote == nodes[a].remotes[p]
        IN  /\ remote.session # None
            /\ is_direct(Unwrap(remote.session))
            /\ remote.route_coord # None

\* C3: the session index of a node maps the id of every session held in a
\* remote record to that remote.
C3_SessionIndex ==
    \A a \in DOMAIN nodes : \A idx \in DOMAIN nodes[a].remotes :
        LET remote == nodes[a].remotes[idx]
        IN  remote.session # None =>
                LET session_id == Unwrap(remote.session).session_id
                IN  /\ session_id \in DOMAIN nodes[a].sessions
                    /\ nodes[a].sessions[session_id] = idx

\* C4: no remote record holds a pending session and a session at once.
C4_ExclusiveStates ==
    \A a \in DOMAIN nodes : \A idx \in DOMAIN nodes[a].remotes :
        ~(/\ nodes[a].remotes[idx].pending_session # None
          /\ nodes[a].remotes[idx].session # None)

\* the positions in the log of a tick of a CalculatePeers action that
\* succeeded and was followed at once by another one that succeeded
TwiceCalculatePeers(log) ==
    {i \in 1..(Len(log) - 1) :
        /\ log[i].ev = "action" /\ log[i].type = "CalculatePeers" /\ log[i].ok
        /\ log[i + 1].ev = "action" /\ log[i + 1].type = "CalculatePeers"
        /\ log[i + 1].ok}

\* C10: of two CalculatePeers actions that follow each other, the second
\* leaves the peer set as the first made it and emits no packet.
C10_CalculatePeersTwice ==
    \A a \in DOMAIN nh.log : \A i \in TwiceCalculatePeers(nh.log[a]) :
        /\ nh.log[a][i + 1].peers = nh.log[a][i].peers
        /\ nh.log[a][i + 1].emitted = 0

\* the Traverse packets the node handled in its last tick that were not meant
\* for it and whose closest peer was the node they came from
LocalMinimumTraverses(a) ==
    {i \in DOMAIN nh.log[a] :
        /\ nh.log[a][i].ev = "traverse"
        /\ ~nh.log[a][i].for_node
        /\ nh.log[a][i].closest = Some(nh.log[a][i].from)}

ForwardedToClosest(e) ==
    LET session == Unwrap(e.peer_session)
    IN  /\ Len(e.pushed) = 1
        /\ e.peer_session # None
        /\ is_direct(session)
        /\ e.pushed[1] = package(wrap_session(session, e.packet),
                                 session.session_type.net_addr)

C30_ForNodeProcessedLocally ==
    \A a \in DOMAIN nh.log : \A i \in DOMAIN nh.log[a] :
        (nh.log[a][i].ev = "traverse" /\ nh.log[a][i].for_node)
            => nh.log[a][i].parsed /\ ~nh.log[a][i].forwarded

C12_ArrivalAfterDelay ==
    \A a \in DOMAIN nh.arrived : \A i \in DOMAIN nh.arrived[a] :
        nh.arrived[a][i].at >= nh.arrived[a][i].sent + nh.arrived[a][i].delay

\* the "action" events of a ghost log, in order
ActionEvents(log) == SelectSeq(log, LAMBDA e : e.ev = "action")

RECURSIVE Flatten(_)
Flatten(seqs) == IF seqs = <<>> THEN <<>> ELSE Head(seqs) \o Flatten(Tail(seqs))

IsPrefix(p, q) == Len(p) <= Len(q) /\ SubSeq(q, 1, Len(p)) = p

ClosestViable(e) ==
    LET viable == DOMAIN e.viable
        peers == DOMAIN e.peers
    IN  /\ peers \subseteq viable
        /\ Cardinality(peers) = Min2(TARGET_PEER_COUNT, Cardinality(viable))
        /\ \A p \in peers : \A q \in viable \ peers : e.viable[p] <= e.viable[q]

\* C27: after CalculatePeers completes on a node that has a route coord, its
\* peer set is exactly the min(TARGET_PEER_COUNT, v) viable remotes of the
\* smallest tracked distance, the viable remotes being all v remotes with an
\* established Direct session and a known coord; none is omitted while a
\* slot is free, also when two remotes have the same measured distance.
C27_ClosestPeers ==
    \A a \in DOMAIN nh.log :
        LET evs == ActionEvents(nh.log[a])
        IN  \A i \in DOMAIN evs :
                (evs[i].type = "CalculatePeers" /\ evs[i].ok) => ClosestViable(evs[i])

\* a PeerNotify went to the remotes whose membership flipped, and to no other
NotifiedIffFlipped(e) ==
    \A idx \in DOMAIN e.peered_before :
        (idx \in e.notified) <=> ((idx \in DOMAIN e.peers) # e.peered_before[idx])

\* the outgoing-peer bit of every direct remote is its membership
PeeredIsMembership(e) ==
    \A idx \in DOMAIN e.peered : e.peered[idx] = (idx \in DOMAIN e.peers)

\* C28: a CalculatePeers action sends a PeerNotify to a direct remote if and
\* only if the remote's membership in the peer set flipped relative to the
\* peer status recorded on its session (a remote whose membership did not
\* change receives none), and after the action the outgoing-peer bit of the
\* session of every direct remote equals its membership in the peer set.
C28_NotifyOnFlip ==
    \A a \in DOMAIN nh.log :
        LET evs == ActionEvents(nh.log[a])
        IN  \A i \in DOMAIN evs :
                (evs[i].type = "CalculatePeers" /\ evs[i].ok)
                    => NotifiedIffFlipped(evs[i]) /\ PeeredIsMembership(evs[i])

\* the action failed for want of a coordinate of the node, of the oracle's
\* coordinate or of a peer
PreconditionMissing(e) ==
    /\ ~e.ok
    /\ \/ e.type \in {"CalculatePeers", "ConnectRouted"} /\ e.coord_before = None
       \/ e.type = "CalcRouteCoord"
       \/ /\ e.type = "ConnectTraversed"
          /\ (e.coord_before = None \/ e.peers_before = EmptyMap)

\* the action stays in the action list or was pushed again behind a Condition
Deferred(e) ==
    \/ e.ret # None
    \/ \E k \in DOMAIN e.produced :
            \/ e.produced[k] = e.action
            \/ /\ e.produced[k].type = "Condition"
               /\ e.produced[k].action = e.action

\* C34: an action whose precondition is a route coordinate or a peer set that
\* does not exist yet (CalculatePeers or ConnectRouted before the node has a
\* coordinate, CalcRouteCoord before a coordinate of the oracle was injected,
\* ConnectTraversed before the node has a coordinate or a peer) is not lost:
\* it is retried through a deferred action.
C34_RetriedWhenPreconditionHolds ==
    \A a \in DOMAIN nh.log :
        LET evs == ActionEvents(nh.log[a])
        IN  \A i \in DOMAIN evs : PreconditionMissing(evs[i]) => Deferred(evs[i])

\* C35: a Connect or ConnectTraversed that fails to emit its Handshake leaves
\* the node unchanged: a remote has a pending session with session id s only
\* if the node emitted a Handshake with session id s toward that remote.
C35_PendingOnlyAfterHandshake ==
    \A a \in DOMAIN nodes :
        \A id \in DOMAIN nodes[a].remotes :
            LET pending == nodes[a].remotes[id].pending_session
            IN  pending # None => <<id, Unwrap(pending).session_id>> \in nh.sent[a]

\* the keys of direct_sorted under which a remote is listed
ListedAt(node, id) == {d \in DOMAIN node.direct_sorted : node.direct_sorted[d] = id}

\* the remote has an established Direct session with a measured distance
MeasuredDirect(node, id) ==
    LET remote == node.remotes[id]
    IN  /\ remote.session # None
        /\ is_direct(Unwrap(remote.session))
        /\ Unwrap(remote.session).tracker.ping_count > 0

\* every measured Direct remote is listed, none of them twice
ListedOnce(node) ==
    \A id \in DOMAIN node.remotes :
        MeasuredDirect(node, id) => Cardinality(ListedAt(node, id)) = 1

\* no remote is listed under two distances
NotListedTwice(node) ==
    \A id \in DOMAIN node.remotes : Cardinality(ListedAt(node, id)) <= 1

\* every entry is a remote whose current session is Direct
ListedAreDirect(node) ==
    \A d \in DOMAIN node.direct_sorted :
        LET id == node.direct_sorted[d]
        IN  /\ id \in DOMAIN node.remotes
            /\ node.remotes[id].session # None
            /\ is_direct(Unwrap(node.remotes[id].session))

\* C36: in every reachable state of a node direct_sorted holds exactly one
\* entry for each remote that has an established Direct session whose
\* handshake or ConnectionInit measured a distance, and no entry for a remote
\* whose current session is Traversed or Routed; entries are not lost when
\* two remotes measure the same distance, and a remote is not listed twice
\* after a repeated handshake.
C36_DirectSortedExact ==
    \A a \in DOMAIN nodes :
        ListedOnce(nodes[a]) /\ NotListedTwice(nodes[a]) /\ ListedAreDirect(nodes[a])

\* C37: a Handshake whose recipient is not the NodeID of the receiving node
\* is dropped with no state change: no remote record is created for the
\* signer, no session is installed or replaced, no pending session is
\* cleared, the session index is unchanged and no Acknowledge is emitted.
C37_MisaddressedHandshakeDropped ==
    \A a \in DOMAIN nh.log :
        \A i \in DOMAIN nh.log[a] :
            LET e == nh.log[a][i]
            IN  e.ev = "misaddressed" =>
                    /\ ~e.ok
                    /\ e.node = e.node_before
                    /\ e.pushed = <<>>

\* a Handshake for another node arrived from a signer without a record, and
\* one from a signer for which a session is pending
C37_DroppedWithPending ==
    \E a \in DOMAIN nh.log :
        \E i, j \in DOMAIN nh.log[a] :
            LET e == nh.log[a][i]
                f == nh.log[a][j]
            IN  /\ e.ev = "misaddressed" /\ f.ev = "misaddressed"
                /\ e.signer \notin DOMAIN e.node_before.remotes
                /\ f.signer \in DOMAIN f.node_before.remotes
                /\ f.node_before.remotes[f.signer].pending_session # None
                /\ f.node_before.sessions # EmptyMap

\* the remote has an established Direct session
HasDirect(remotes, id) ==
    /\ id \in DOMAIN remotes
    /\ remotes[id].session # None
    /\ is_direct(Unwrap(remotes[id].session))

\* the packet is a WantPing for the requester of e, sent to id within the
\* Direct session of id
WantPingTo(e, packet, id) ==
    LET session == Unwrap(e.remotes[id].session)
        requester == Unwrap(e.remotes[e.from].session)
    IN  packet = package(wrap_session(session,
                            [type |-> "WantPing", node_id |-> e.from,
                             net_addr |-> requester.session_type.net_addr]),
                         session.session_type.net_addr)

\* what the node emitted for one RequestPings
WantPingsServed(e) ==
    /\ Len(e.pushed) <= Min2(e.requests, MAX_REQUEST_PINGS)
    /\ e.pushed # <<>> => HasDirect(e.remotes, e.from)
    /\ \A k \in DOMAIN e.pushed :
            \E id \in DOMAIN e.remotes \ {e.from} :
                HasDirect(e.remotes, id) /\ WantPingTo(e, e.pushed[k], id)
    /\ \A k, l \in DOMAIN e.pushed : e.pushed[k] = e.pushed[l] => k = l

\* C39: serving RequestPings(n, coord) from a requester emits at most
\* min(n, MAX_REQUEST_PINGS) WantPing packets, each to a distinct remote with
\* which the node has an established direct session, none to the requester
\* itself, and each carrying the NodeID of the requester and the NetAddr of
\* the requester's direct session.
C39_WantPingsServed ==
    \A a \in DOMAIN nh.log :
        \A i \in DOMAIN nh.log[a] :
            nh.log[a][i].ev = "request_pings" => WantPingsServed(nh.log[a][i])

\* no packet is in flight in the router
NothingInFlight ==
    \A a \in DOMAIN router.packet_map : router.packet_map[a] = <<>>

\* the action list of the node holds nothing but Conditions that do not hold
OnlyWaiting(node) ==
    \A i \in DOMAIN node.action_list :
        /\ node.action_list[i].type = "Condition"
        /\ ~condition_holds(node.action_list[i].condition, node)

AtRest == NothingInFlight /\ \A a \in DOMAIN nodes : OnlyWaiting(nodes[a])

HandshakeEvents(log) == SelectSeq(log, LAMBDA e : e.ev = "handshake")

\* what the Handshake arm left for one Handshake addressed to the node
HandshakeHandled(e) ==
    /\ e.remote.session # None
    /\ Unwrap(e.remote.session).session_id = e.session_id
    /\ Unwrap(e.remote.session).session_type = e.session_type
    /\ DOMAIN Unwrap(e.remote.session).tracker.ping_queue = {e.return_ping_id}
    /\ e.session_id \in DOMAIN e.sessions
    /\ e.sessions[e.session_id] = e.signer
    /\ Len(e.pushed) = 1
    /\ e.session_type.kind = "Direct" =>
            e.pushed[1] = package(Acknowledge(e.session_id, e.self, e.return_ping_id),
                                  e.session_type.net_addr)
    /\ e.had_pending =>
            ((e.remote.pending_session = None) <=> (e.self < e.signer))

AcknowledgeEvents(log) == SelectSeq(log, LAMBDA e : e.ev = "acknowledge")

\* the Acknowledge finds a pending session of its session id; the Handshake
\* of a pending session was sent if nh.sent_before holds it
Accepted(e) ==
    /\ e.remote_before # None
    /\ Unwrap(e.remote_before).pending_session # None
    /\ Unwrap(Unwrap(e.remote_before).pending_session).session_id = e.session_id

\* the stored initial packets as ConnectionInit carries them: an ExchangeInfo
\* stays an ExchangeInfo, every other packet is carried as stored
CarriesStored(packets, stored) ==
    /\ Len(packets) = Len(stored)
    /\ \A i \in DOMAIN stored :
            IF stored[i].type = "ExchangeInfo"
            THEN packets[i].type = "ExchangeInfo"
            ELSE packets[i] = stored[i]

\* what the Acknowledge arm left for an accepted Acknowledge
AcknowledgeInstalled(e) ==
    LET pending == Unwrap(Unwrap(e.remote_before).pending_session)
        remote == Unwrap(e.remote)
        session == Unwrap(remote.session)
        sent(packet) ==
            /\ packet.data # None
            /\ Unwrap(packet.data).type = "Session"
            /\ Unwrap(packet.data).session_id = e.session_id
            /\ Unwrap(packet.data).packet.type = "ConnectionInit"
            /\ Unwrap(packet.data).packet.ping_id = e.return_ping_id
            /\ CarriesStored(Unwrap(packet.data).packet.packets, pending.packets)
    IN  /\ remote.session # None
        /\ session.session_id = e.session_id
        /\ session.session_type = pending.session_type
        /\ session.tracker.dist_avg = (e.time - pending.time) \div 2
        /\ session.tracker.ping_count = 1
        /\ pending_pings(session.tracker) = 0
        /\ Len(e.pushed) = 1
        /\ is_direct(session) =>
                /\ e.pushed[1].dest_addr = session.session_type.net_addr
                /\ sent(e.pushed[1])
        /\ remote.pending_session = None
        /\ e.session_id \in DOMAIN e.sessions
        /\ e.sessions[e.session_id] = e.acknowledger

Unmatched(e) ==
    \/ e.remote_before = None
    \/ Unwrap(e.remote_before).pending_session = None
    \/ Unwrap(Unwrap(e.remote_before).pending_session).session_id # e.session_id

\* C25: an unmatched Acknowledge is dropped without side effects: no packet
\* is emitted, no session is installed, and the remote (its pending session
\* and its session), the session index and direct_sorted stay as they are,
\* so that a later matching Acknowledge is still accepted.
C25_UnmatchedAckDropped ==
    \A a \in DOMAIN nh.log :
        LET evs == AcknowledgeEvents(nh.log[a])
        IN  \A i \in DOMAIN evs :
                Unmatched(evs[i]) =>
                    /\ evs[i].pushed = <<>>
                    /\ evs[i].remote = evs[i].remote_before
                    /\ evs[i].sessions = evs[i].sessions_before
                    /\ evs[i].direct_sorted = evs[i].direct_sorted_before

SnapshotTicks == 2   \* ticks compared after a snapshot

RECURSIVE outbound(_, _, _)
\* the packets a node returns in each of the ticks that receive incomings,
\* the host setting the deus ex data after every tick
outbound(node, incomings, rnd) ==
    IF incomings = <<>> THEN <<>>
    ELSE LET r == Node_tick(node, Head(incomings), rnd)
         IN  <<r.outgoing>>
                \o outbound([r.node EXCEPT !.deux_ex_data = Some(SelfPosition)],
                            Tail(incomings), rnd)

\* C22: a node restored from its serialized form returns, tick by tick, the
\* packets the original returns under the same incoming packets and the
\* same random draws, also when it had queued actions or a pending handshake
\* at the time of the snapshot.
C22_SnapshotEquivalent ==
    \A a \in DOMAIN nodes : \A first \in EnvIncoming(1) : \A rnd \in Draws(MaxDraws) :
        LET incomings == [t \in 1..SnapshotTicks |-> IF t = 1 THEN first ELSE <<>>]
        IN  outbound(Node_deserialize(Node_serialize(nodes[a])), incomings, rnd)
                = outbound(nodes[a], incomings, rnd)

\* C18: a node reacts to a RequestPings of a sender (emits WantPing packets)
\* if and only if it has not served a RequestPings of that sender during the
\* 2000 ticks before.
C18_RequestPingsRateLimit ==
    \A a \in DOMAIN nh.log :
        LET evs == RequestEvents(nh.log[a])
        IN  \A i \in DOMAIN evs :
                (evs[i].emitted > 0) <=>
                    (\/ sim.served_before = None
                     \/ evs[i].time - Unwrap(sim.served_before) >= 2000)

\* C16: errors in a packet or an action never abort the tick: for any inbound
\* packet (any envelope variant, Notify included) and any queued action
\* variant Node::tick completes and returns; the program never halts in a
\* tick.
C16_ErrorsNeverAbort == ~sim.halted

(***************************************************************************)
(* Claims about the node table of the host (SpecLease)                      *)
(***************************************************************************)
\* C14: after any sequence of add_node (with the address obtained from
\* lease()) and del_node, lease() returns an address that no live node
\* holds, so that adding a node never replaces a live node of the table.
C14_LeaseUnique ==
    /\ lease(nodes) \notin DOMAIN nodes
    /\ nh.last.op = "add_node" => ~nh.last.replaced

(***************************************************************************)
(* Claims about the router alone (SpecRouter)                               *)
(***************************************************************************)
\* the packets in the streams of the router
Queued ==
    UNION {{router.packet_map[d][i].packet : i \in DOMAIN router.packet_map[d]} :
                d \in DOMAIN router.packet_map}

\* the position of a packet in a sequence of packets
PositionIn(packet, packets) == CHOOSE i \in DOMAIN packets : packets[i] = packet

Returned == [i \in DOMAIN nh.returned |-> nh.returned[i].packet]

\* every packet added is either in a stream or returned, never both, and a
\* packet is returned once, by tick_node of its destination
LossFree ==
    /\ {nh.added[i] : i \in DOMAIN nh.added} = Queued \cup {Returned[i] : i \in DOMAIN Returned}
    /\ Queued \cap {Returned[i] : i \in DOMAIN Returned} = {}
    /\ \A d \in DOMAIN router.packet_map : \A i, j \in DOMAIN router.packet_map[d] :
            /\ router.packet_map[d][i].packet.dest_addr = d
            /\ router.packet_map[d][i].packet = router.packet_map[d][j].packet => i = j
    /\ \A i, j \in DOMAIN Returned : Returned[i] = Returned[j] => i = j
    /\ \A i \in DOMAIN nh.returned : nh.returned[i].by = nh.returned[i].packet.dest_addr

\* two packets of one source and destination with the same delay are
\* returned in the order they were added
OrderPreserving ==
    \A i, j \in DOMAIN nh.returned :
        LET p == nh.returned[i].packet
            q == nh.returned[j].packet
        IN  (/\ p.src_addr = q.src_addr /\ p.dest_addr = q.dest_addr
             /\ nh.returned[i].delay = nh.returned[j].delay
             /\ PositionIn(p, nh.added) < PositionIn(q, nh.added)) => i < j

\* a call of tick_node leaves the streams of the other addresses alone,
\* returns the packets of its address that it brings to 0 ticks or less, in
\* the order of the stream, and keeps the others with one tick less
TickNodeStep ==
    (nh'.last.op = "tick_node" /\ nh'.last.destination \in DOMAIN router.packet_map) =>
        LET d == nh'.last.destination
            stream == router.packet_map[d]
            due == SelectSeq(stream, LAMBDA e : e.ticks - 1 <= 0)
            rest == SelectSeq(stream, LAMBDA e : e.ticks - 1 > 0)
        IN  /\ \A b \in (DOMAIN router.packet_map) \ {d} :
                    router'.packet_map[b] = router.packet_map[b]
            /\ DOMAIN router'.packet_map = DOMAIN router.packet_map
            /\ SubSeq(nh'.returned, Len(nh.returned) + 1, Len(nh'.returned))
                    = [i \in DOMAIN due |->
                        [packet |-> due[i].packet, by |-> d, delay |-> due[i].delay]]
            /\ router'.packet_map[d]
                    = [i \in DOMAIN rest |-> [rest[i] EXCEPT !.ticks = @ - 1]]

\* C13: router delivery is loss-free and order-preserving: every packet
\* passed to add_packets is returned once, by tick_node of its destination
\* only, by the call that brings its remaining ticks to 0 or less; tick_node
\* of an address neither decrements nor removes the packets of other
\* addresses; two packets of one (src, dest) with equal delay are returned
\* in the order they were added.
C13_RouterDelivery == [](LossFree /\ OrderPreserving) /\ [][TickNodeStep]_vars

C13_Witness ==
    /\ \E i, j \in DOMAIN nh.returned :
            /\ i < j
            /\ nh.returned[i].packet.src_addr = nh.returned[j].packet.src_addr
            /\ nh.returned[i].by = nh.returned[j].by
            /\ nh.returned[i].delay = nh.returned[j].delay
            /\ nh.returned[i].delay >= 2
    /\ \E d \in DOMAIN router.packet_map : \E i \in DOMAIN router.packet_map[d] :
            /\ router.packet_map[d][i].ticks = router.packet_map[d][i].delay
            /\ router.packet_map[d][i].sent + 2 <= sim.calls

\* C15: every packet the simulator hands to the router during tick() carries
\* as src_addr the NetAddr of the node whose tick() emitted it, whatever
\* src_addr the node wrote into the packet.
C15_SourceRewritten ==
    \A a \in DOMAIN nh.handed : \A i \in DOMAIN nh.handed[a] :
        nh.handed[a][i].packet.src_addr = a

C15_Witness ==
    \E a \in DOMAIN nh.handed : \E i \in DOMAIN nh.handed[a] :
        /\ nh.handed[a][i].wrote # a
        /\ nh.handed[a][i].packet.src_addr = a

\* C23: two runs with the same seed, the same order of add_node calls and
\* the same actions given to the nodes make the identical sequence of
\* (tick, destination address, packet) deliveries.
C23_RouterDeterminism ==
    sim.next = 1 => nh.delivered[1] = nh.delivered[2]

\* no packet in flight in the router carries a request or its answer
NoRequestInFlight ==
    \A a \in DOMAIN router.packet_map : \A i \in DOMAIN router.packet_map[a] :
        router.packet_map[a][i].packet.request = None

\* the answer of the host arrives in the round in which the request was made
AnsweredInRound ==
    \A a \in DOMAIN nh.arrived : \A i \in DOMAIN nh.arrived[a] :
        nh.arrived[a][i].response => nh.arrived[a][i].at = nh.arrived[a][i].sent

\* C21: a packet whose request is RouteCoordDHTRead or RouteCoordDHTWrite is
\* handled by the host, is never placed in the router's queues of packets in
\* flight, and its response reaches the requesting node within the same
\* simulator tick.
C21_RequestsBypassRouter == NoRequestInFlight /\ AnsweredInRound

(***************************************************************************)
(* The publication of the coordinate (SpecPublish): MaxDirect remotes       *)
(* connect to a node as in the start of SpecNode, one of them sends in one  *)
(* tick of the start a Traverse packet that carries a Handshake for the     *)
(* node, and the host answers the requests of the node from the directory.  *)
(***************************************************************************)
MaxPublishTicks == 4   \* ticks of the node after the last remote connected

PublishLen == StartLen(MaxDirect) + MaxPublishTicks

\* the remotes that send the Traverse packet
TraverseAddrs == {2, 3}

InitPublish ==
    /\ tracker = <<>> /\ now = 0 /\ th = <<>>
    /\ router = <<>> /\ dht = EmptyMap
    /\ \E iter_desc \in BOOLEAN :
            nodes = [a \in {SelfAddr} |->
                        Node_new(NodeIDOf(SelfAddr), SelfAddr, iter_desc)]
    /\ \E at \in 1..PublishLen : \E from \in TraverseAddrs :
            sim = [count |-> MaxDirect, started |-> 0, at |-> at, from |-> from,
                   writes |-> 0]
    /\ nh = [log |-> [a \in {SelfAddr} |-> <<>>],
             queued |-> [a \in {SelfAddr} |-> <<>>],
             drained |-> [a \in {SelfAddr} |-> <<>>],
             sent |-> [a \in {SelfAddr} |-> {}],
             sent_before |-> [a \in {SelfAddr} |-> {}],
             commands |-> <<>>]

\* the Traverse packet of the remote, under the session id the node holds
\* for it: none when the remote holds no session yet
TraverseIncoming(r) ==
    IF SessionIDFor(Self, NodeIDOf(r)) = None THEN <<>>
    ELSE <<SessionPacket(r, Unwrap(SessionIDFor(Self, NodeIDOf(r))),
                TraversedPacket_new(SelfPosition,
                    Handshake(NodeIDOf(SelfAddr), 1, NodeIDOf(r)),
                    Some(StartCoord(r))))>>

\* one tick of the node and the host's loop over the packets it returned;
\* the ghost field sim.writes counts the RouteCoordDHTWrite requests of the
\* tick
PublishTick ==
    /\ sim.started < PublishLen
    /\ LET handled(r, out) ==
                /\ ~r.panic /\ ~out.panic
                /\ AfterTick(r)
                /\ dht' = out.dht
                /\ sim' = [sim EXCEPT
                            !.started = @ + 1,
                            !.writes = Len(SelectSeq(r.outgoing, IsDHTWrite))]
            ticked(r) == handled(r, handle_outgoing(r.outgoing, SelfAddr, dht, <<>>))
       IN  ticked(Node_tick(Self,
                    StartIncoming(sim.count, sim.started)
                        \o (IF sim.started = sim.at
                            THEN TraverseIncoming(sim.from) ELSE <<>>),
                    [j \in 1..(sim.count + 1) |-> 1]))
    /\ UNCHANGED router
    /\ UNCHANGED trackerVars

NextPublish == PublishTick

SpecPublish == InitPublish /\ [][NextPublish]_vars

(***************************************************************************)
(* The directory of the host (SpecDirectory): the nodes of DirectoryAddrs   *)
(* return, tick by tick, packets that read the directory, publish their own *)
(* coordinate or go to another node, and the host's loop handles them.      *)
(***************************************************************************)
MaxDirectoryOps == 4     \* packets the nodes return in a behaviour
MaxDirectoryBatch == 2   \* packets a node returns in one tick

DirectoryAddrs == 1..2

DirectoryCoords == {<<0, 0>>, <<1, 0>>}

\* the packets a node returns: a read of any entry, the write of its own
\* coordinate, and a Handshake for the other node
DirectoryPackets(a) ==
    {gen_request(a, [type |-> "RouteCoordDHTRead", node_id |-> NodeIDOf(r),
                     route |-> None]) : r \in DirectoryAddrs}
    \cup {gen_request(a, [type |-> "RouteCoordDHTWrite", node_id |-> NodeIDOf(a),
                          route |-> Some(c)]) : c \in DirectoryCoords}
    \cup {package(Handshake(NodeIDOf(r), 1, NodeIDOf(a)), r) :
            r \in DirectoryAddrs \ {a}}

InitDirectory ==
    /\ tracker = <<>> /\ now = 0 /\ th = <<>>
    /\ nodes = <<>> /\ router = <<>>
    /\ dht = EmptyMap
    /\ sim = [ops |-> 0]
    /\ nh = [history |-> <<>>]

\* the loop of NetSim::tick over the packets one node returned; the ghost
\* history records every packet with the node that returned it and what the
\* loop made of it
DirectoryTick ==
    /\ sim.ops < MaxDirectoryOps
    /\ \E a \in DirectoryAddrs :
       \E len \in 1..Min2(MaxDirectoryBatch, MaxDirectoryOps - sim.ops) :
       \E packets \in [1..len -> DirectoryPackets(a)] :
        LET out == handle_outgoing(packets, a, dht, <<>>)
        IN  /\ ~out.panic
            /\ dht' = out.dht
            /\ sim' = [sim EXCEPT !.ops = @ + len]
            /\ nh' = [nh EXCEPT !.history = @ \o
                        [i \in 1..len |->
                            [node |-> a, returned |-> packets[i],
                             handled |-> IF i <= Len(out.packets)
                                         THEN Some(out.packets[i]) ELSE None,
                             batch |-> Len(out.packets)]]]
    /\ UNCHANGED <<nodes, router>>
    /\ UNCHANGED trackerVars

NextDirectory == DirectoryTick

SpecDirectory == InitDirectory /\ [][NextDirectory]_vars

RECURSIVE LastWritten(_, _, _)
\* the coordinate of the most recent Write for id among the first n packets
\* of the history
LastWritten(history, n, id) ==
    IF n = 0 THEN None
    ELSE LET request == history[n].returned.request
         IN  IF /\ request # None
                /\ Unwrap(request).type = "RouteCoordDHTWrite"
                /\ Unwrap(request).node_id = id
             THEN Unwrap(request).route
             ELSE LastWritten(history, n - 1, id)

\* the directory holds for every id what the most recent Write for it wrote
DirectoryIsLastWrites ==
    \A r \in DirectoryAddrs :
        LastWritten(nh.history, Len(nh.history), NodeIDOf(r))
            = (IF NodeIDOf(r) \in DOMAIN dht THEN Some(dht[NodeIDOf(r)]) ELSE None)

\* the answer to the i-th packet of the history
Answered(i) ==
    LET e == nh.history[i]
        request == Unwrap(e.returned.request)
        answer == Unwrap(e.handled)
        before == LastWritten(nh.history, i - 1, request.node_id)
    IN  /\ e.handled # None
        /\ answer.dest_addr = e.node
        /\ answer.request # None
        /\ Unwrap(answer.request).node_id = request.node_id
        /\ Unwrap(answer.request).route = before
        /\ Unwrap(answer.request).type =
                (IF request.type = "RouteCoordDHTRead"
                 THEN "RouteCoordDHTReadResponse"
                 ELSE "RouteCoordDHTWriteResponse")

\* C38: RouteCoordDHTWrite(id, c) sets directory[id] = c and its response
\* carries the previous entry for id (or none); RouteCoordDHTRead(id) returns
\* the entry written by the most recent earlier Write for id (or none) and
\* leaves the directory unchanged; every response is addressed to the node
\* that issued the request and to no other node; the directory changes only
\* through Write requests.
C38_DirectorySemantics ==
    /\ DirectoryIsLastWrites
    /\ DOMAIN dht \subseteq {NodeIDOf(r) : r \in DirectoryAddrs}
    /\ \A i \in DOMAIN nh.history :
            /\ nh.history[i].batch >= 1
            /\ nh.history[i].returned.request # None => Answered(i)
            /\ nh.history[i].returned.request = None =>
                    /\ nh.history[i].handled # None
                    /\ Unwrap(nh.history[i].handled).request = None
                    /\ Unwrap(nh.history[i].handled).dest_addr
                            = nh.history[i].returned.dest_addr
                    /\ Unwrap(nh.history[i].handled).data
                            = nh.history[i].returned.data

\* an entry was overwritten, and read by the other node before and after
C38_ReadAfterOverwrite ==
    \E i, j, k, l \in DOMAIN nh.history :
        LET read == nh.history[i].returned.request
            first == nh.history[j].returned.request
            second == nh.history[k].returned.request
            again == nh.history[l].returned.request
        IN  /\ i < j /\ j < k /\ k < l
            /\ read # None /\ first # None /\ second # None /\ again # None
            /\ Unwrap(read).type = "RouteCoordDHTRead"
            /\ Unwrap(again).type = "RouteCoordDHTRead"
            /\ Unwrap(first).type = "RouteCoordDHTWrite"
            /\ Unwrap(second).type = "RouteCoordDHTWrite"
            /\ Unwrap(first).node_id = Unwrap(read).node_id
            /\ Unwrap(second).node_id = Unwrap(read).node_id
            /\ Unwrap(again).node_id = Unwrap(read).node_id
            /\ Unwrap(first).route # Unwrap(second).route
            /\ nh.history[i].node # nh.history[j].node
            /\ nh.history[l].node # nh.history[j].node

(***************************************************************************)
(* A request for pings after a repeated handshake (SpecWant): the node      *)
(* starts as in SpecNode with MaxDirect remotes; then one remote may repeat *)
(* its Handshake and complete the connection again, and a remote sends      *)
(* RequestPings.                                                            *)
(***************************************************************************)
WantSteps == 3           \* ticks of the node after its start

RepeatAddrs == 2..3      \* the remotes that may repeat their handshake
RequesterAddrs == 2..4   \* the remotes that may request pings

\* the packets of step t after the start
WantIncoming(t) ==
    IF t = 0 /\ sim.repeats
    THEN <<Envelope(sim.again, Handshake(NodeIDOf(SelfAddr), 1, NodeIDOf(sim.again)))>>
    ELSE IF t = 1 /\ sim.repeats
    THEN <<SessionPacket(sim.again, 1,
                [type |-> "ConnectionInit", ping_id |-> 1, packets |-> <<>>])>>
    ELSE IF t = 2 /\ SessionIDFor(Self, NodeIDOf(sim.requester)) # None
    THEN <<SessionPacket(sim.requester,
                Unwrap(SessionIDFor(Self, NodeIDOf(sim.requester))),
                [type |-> "RequestPings", requests |-> sim.requests,
                 route_coord |-> sim.route_coord])>>
    ELSE <<>>

InitWant ==
    /\ tracker = <<>> /\ now = 0 /\ th = <<>>
    /\ router = <<>> /\ dht = <<>>
    /\ \E iter_desc \in BOOLEAN :
            nodes = [a \in {SelfAddr} |->
                        Node_new(NodeIDOf(SelfAddr), SelfAddr, iter_desc)]
    /\ \E repeats \in BOOLEAN, again \in RepeatAddrs, requester \in RequesterAddrs,
          requests \in {1, 2, TARGET_PEER_COUNT, TARGET_PEER_COUNT + 2},
          route_coord \in {None, Some(<<0, 1>>)} :
            sim = [count |-> MaxDirect, started |-> 0, step |-> 0,
                   repeats |-> repeats, again |-> again, requester |-> requester,
                   requests |-> requests, route_coord |-> route_coord]
    /\ nh = [log |-> [a \in {SelfAddr} |-> <<>>],
             queued |-> [a \in {SelfAddr} |-> <<>>],
             drained |-> [a \in {SelfAddr} |-> <<>>],
             sent |-> [a \in {SelfAddr} |-> {}],
             sent_before |-> [a \in {SelfAddr} |-> {}],
             commands |-> <<>>]

\* one tick of the node after its start
WantTick ==
    /\ sim.started = StartLen(sim.count)
    /\ sim.step < WantSteps
    /\ LET ticked(r) == ~r.panic /\ AfterTick(r)
       IN  ticked(Node_tick(Self, WantIncoming(sim.step), [j \in 1..MaxDraws |-> 1]))
    /\ sim' = [sim EXCEPT !.step = @ + 1]
    /\ UNCHANGED <<router, dht>>
    /\ UNCHANGED trackerVars

NextWant == StartTick \/ WantTick

SpecWant == InitWant /\ [][NextWant]_vars

(***************************************************************************)
(* The peers of a node (SpecPeers): the remotes of TieAddrs send their       *)
(* Handshake in tick 0 and complete the connection, each in a tick of its    *)
(* own choice, with a ConnectionInit that carries the remote's coordinate.   *)
(***************************************************************************)
MaxTieTick == 3      \* the last tick in which a remote completes its connection
MaxPeersTicks == 4   \* ticks of the node after that

TieAddrs == 2..4

\* the ConnectionInit packets of tick t, in the order of the addresses
RECURSIVE TieInits(_, _)
TieInits(addrs, t) ==
    IF addrs = {} THEN <<>>
    ELSE LET r == CHOOSE x \in addrs : \A y \in addrs : x <= y
         IN  (IF sim.at[r] = t
              THEN <<SessionPacket(r, StartSessionID(r),
                        [type |-> "ConnectionInit", ping_id |-> 1,
                         packets |-> <<ExchangeInfo(Some(StartCoord(r)), 2, 0)>>])>>
              ELSE <<>>) \o TieInits(addrs \ {r}, t)

TieIncoming(t) ==
    IF t = 0
    THEN [j \in 1..Cardinality(TieAddrs) |->
            Envelope(j + 1, Handshake(NodeIDOf(SelfAddr), StartSessionID(j + 1),
                                      NodeIDOf(j + 1)))]
    ELSE TieInits(TieAddrs, t)

InitPeers ==
    /\ tracker = <<>> /\ now = 0 /\ th = <<>>
    /\ router = <<>> /\ dht = <<>>
    /\ \E iter_desc \in BOOLEAN :
            nodes = [a \in {SelfAddr} |->
                        Node_new(NodeIDOf(SelfAddr), SelfAddr, iter_desc)]
    /\ \E at \in [TieAddrs -> 1..MaxTieTick] :
            sim = [started |-> 0, at |-> at]
    /\ nh = [log |-> [a \in {SelfAddr} |-> <<>>],
             queued |-> [a \in {SelfAddr} |-> <<>>],
             drained |-> [a \in {SelfAddr} |-> <<>>],
             sent |-> [a \in {SelfAddr} |-> {}],
             sent_before |-> [a \in {SelfAddr} |-> {}],
             commands |-> <<>>]

\* one tick of the node
PeersTick ==
    /\ sim.started < MaxTieTick + MaxPeersTicks
    /\ LET ticked(r) == ~r.panic /\ AfterTick(r)
       IN  ticked(Node_tick(Self, TieIncoming(sim.started),
                            [j \in 1..Cardinality(TieAddrs) |-> 1]))
    /\ sim' = [sim EXCEPT !.started = @ + 1]
    /\ UNCHANGED <<router, dht>>
    /\ UNCHANGED trackerVars

NextPeers == PeersTick

SpecPeers == InitPeers /\ [][NextPeers]_vars

(***************************************************************************)
(* Conditions (SpecCond): a node is built with one Condition in its action   *)
(* list (Node::with_action) and ticks; remotes send it a Handshake or the     *)
(* host answers a RouteCoordDHTRead with the coordinate of a remote.          *)
(***************************************************************************)
MaxCondTicks == 3    \* ticks of a behaviour
MaxRunAt == 2        \* the latest tick of a RunAt condition

CondAddrs == {0, 2}

\* the conditions, each with an inner action whose run is seen in the log
Conditions ==
    UNION {{Condition([type |-> kind, node_id |-> NodeIDOf(r)],
                      [type |-> "RequestRouteCoord", node_id |-> NodeIDOf(r)]) :
                kind \in {"Session", "RemoteRouteCoord"}} : r \in CondAddrs}
    \cup {Condition([type |-> "RunAt", time |-> t], [type |-> "CalcRouteCoord"]) :
                t \in 0..MaxRunAt}

\* what a tick may receive: nothing, the Handshake of a remote, or the answer
\* of the host with the coordinate of a remote
CondIncoming ==
    {<<>>}
    \cup {<<Envelope(r, Handshake(NodeIDOf(SelfAddr), 1, NodeIDOf(r)))>> :
                r \in CondAddrs}
    \cup {<<gen_request(SelfAddr, [type |-> "RouteCoordDHTReadResponse",
                                   node_id |-> NodeIDOf(r),
                                   route |-> Some(StartCoord(r))])>> :
                r \in CondAddrs}

InitCond ==
    /\ tracker = <<>> /\ now = 0 /\ th = <<>>
    /\ router = <<>> /\ dht = <<>>
    /\ \E iter_desc \in BOOLEAN : \E act \in Conditions :
            nodes = [a \in {SelfAddr} |->
                        [Node_new(NodeIDOf(SelfAddr), SelfAddr, iter_desc)
                            EXCEPT !.action_list = <<act>>]]
    /\ sim = [started |-> 0]
    /\ nh = [log |-> [a \in {SelfAddr} |-> <<>>],
             queued |-> [a \in {SelfAddr} |-> <<>>],
             drained |-> [a \in {SelfAddr} |-> <<>>],
             sent |-> [a \in {SelfAddr} |-> {}],
             sent_before |-> [a \in {SelfAddr} |-> {}],
             commands |-> <<>>]

\* one tick of the node
CondTick ==
    /\ sim.started < MaxCondTicks
    /\ \E incoming \in CondIncoming :
        LET ticked(r) == ~r.panic /\ AfterTick(r)
        IN  ticked(Node_tick(Self, incoming, [j \in 1..MaxDraws |-> 1]))
    /\ sim' = [sim EXCEPT !.started = @ + 1]
    /\ UNCHANGED <<router, dht>>
    /\ UNCHANGED trackerVars

NextCond == CondTick

SpecCond == InitCond /\ [][NextCond]_vars

\* what the tick did with a Condition of its action list
ConditionKept(e) ==
    /\ e.ok
    /\ e.emitted = 0
    /\ e.produced = <<>>
    /\ e.ret = Some(IF e.held THEN e.action.action ELSE e.action)

\* C33: a Condition(cond, inner) whose condition does not hold in a tick stays
\* in the action queue unchanged and emits nothing, for every kind of
\* condition and every state of the node (Session or RemoteRouteCoord for a
\* NodeID with or without a remote record, RunAt for a later tick); in the
\* first tick in which the condition holds the entry is replaced by inner, and
\* it is never removed before.
C33_ConditionWaits ==
    \A a \in DOMAIN nh.log :
        LET evs == ActionEvents(nh.log[a])
        IN  \A i \in DOMAIN evs :
                evs[i].type = "Condition" => ConditionKept(evs[i])

(***************************************************************************)
(* A Traverse packet among the nodes of RingAddrs (SpecRing).  Every node    *)
(* holds a Direct session with every other node; its peers are the nodes     *)
(* that sent it a ConnectionInit with their coordinate, so the peer sets     *)
(* need not be symmetric.  After that only the Traverse packet is followed:  *)
(* the peer sets stay as they are.                                           *)
(***************************************************************************)
MaxRingHops == 7     \* more hops than there are pairs (node, sender)
RingSetupTicks == 4  \* ticks in which a node sets up its sessions and peers

RingAddrs == 0..2
RingPoints == {<<0, 0>>, <<2, 0>>, <<1, 2>>}
RingDestinations == {<<0, 0>>, <<3, 1>>}

\* the session id two nodes share
RingSessionID(a, r) == 1 + a + r

\* a packet as the router hands it to the node at dest_addr
Delivered(src_addr, dest_addr, encryption) ==
    [package(encryption, dest_addr) EXCEPT !.src_addr = src_addr]

RECURSIVE RingInits(_, _, _)
\* the ConnectionInit packets of the nodes of addrs for the node at a
RingInits(a, addrs, coords) ==
    IF addrs = {} THEN <<>>
    ELSE LET r == CHOOSE x \in addrs : \A y \in addrs : x <= y
         IN  <<Delivered(r, a,
                [type |-> "Session", session_id |-> RingSessionID(a, r),
                 packet |-> [type |-> "ConnectionInit", ping_id |-> 1,
                             packets |-> <<ExchangeInfo(Some(coords[r]), 2, 0)>>]])>>
             \o RingInits(a, addrs \ {r}, coords)

RECURSIVE RingHandshakes(_, _)
\* the Handshakes of the nodes of addrs for the node at a
RingHandshakes(a, addrs) ==
    IF addrs = {} THEN <<>>
    ELSE LET r == CHOOSE x \in addrs : \A y \in addrs : x <= y
         IN  <<Delivered(r, a, Handshake(NodeIDOf(a), RingSessionID(a, r),
                                         NodeIDOf(r)))>>
             \o RingHandshakes(a, addrs \ {r})

RECURSIVE RingSetup(_, _, _, _)
\* the node at a after the ticks t..RingSetupTicks - 1 of the setup: the
\* Handshakes arrive in tick 0, the ConnectionInit packets of its peers in
\* tick 1, and the host sets the deus ex data after every tick
RingSetup(node, peers, coords, t) ==
    IF t >= RingSetupTicks THEN node
    ELSE LET a == node.net_addr
             incoming == IF t = 0 THEN RingHandshakes(a, RingAddrs \ {a})
                         ELSE IF t = 1 THEN RingInits(a, peers, coords)
                         ELSE <<>>
             ticked == Node_tick(node, incoming, [j \in 1..2 |-> 1])
         IN  RingSetup([ticked.node EXCEPT !.deux_ex_data = Some(coords[a])],
                       peers, coords, t + 1)

InitRing ==
    /\ tracker = <<>> /\ now = 0 /\ th = <<>>
    /\ router = <<>> /\ dht = <<>> /\ nh = <<>>
    /\ \E iter_desc \in BOOLEAN :
       \E coords \in [RingAddrs -> RingPoints] :
       \E peers \in [RingAddrs -> SUBSET RingAddrs] :
            /\ \A a, b \in RingAddrs : coords[a] = coords[b] => a = b
            /\ \A a \in RingAddrs : a \notin peers[a]
            /\ nodes = [a \in RingAddrs |->
                    RingSetup([Node_new(NodeIDOf(a), a, iter_desc)
                                    EXCEPT !.deux_ex_data = Some(coords[a])],
                              peers[a], coords, 0)]
    /\ \E at \in RingAddrs : \E from \in RingAddrs \ {at} :
       \E destination \in RingDestinations :
            sim = [at |-> at, from |-> from, hops |-> 0, dropped |-> FALSE,
                   seen |-> {<<at, from>>}, revisited |-> FALSE,
                   packet |-> TraversedPacket_new(destination,
                        Handshake(NodeIDOf(Cardinality(RingAddrs)), 1,
                                  NodeIDOf(Cardinality(RingAddrs) + 1)),
                        Some(destination))]

\* is the packet a Traverse packet inside a session
IsTraverse(packet) ==
    /\ packet.data # None
    /\ Unwrap(packet.data).type = "Session"
    /\ Unwrap(packet.data).packet.type = "Traverse"

\* the node the packet is at receives it in a tick; the packet it sends on
\* reaches the node it is for, and a packet that is not sent on is dropped.
\* The ghost field seen holds the pairs (node, sender) the packet was at.
RingForward ==
    /\ ~sim.dropped
    /\ sim.hops < MaxRingHops
    /\ LET a == sim.at
           ticked == Node_tick(nodes[a],
                        <<Delivered(sim.from, a,
                            [type |-> "Session",
                             session_id |-> RingSessionID(a, sim.from),
                             packet |-> sim.packet])>>,
                        <<>>)
           sent == SelectSeq(ticked.outgoing, IsTraverse)
       IN  /\ nodes' = [nodes EXCEPT ![a] = ticked.node]
           /\ sim' = IF sent = <<>>
                     THEN [sim EXCEPT !.dropped = TRUE, !.hops = @ + 1]
                     ELSE [sim EXCEPT
                            !.at = sent[1].dest_addr,
                            !.from = a,
                            !.hops = @ + 1,
                            !.packet = Unwrap(sent[1].data).packet,
                            !.seen = @ \cup {<<sent[1].dest_addr, a>>},
                            !.revisited = @ \/ <<sent[1].dest_addr, a>> \in sim.seen]
    /\ UNCHANGED <<router, dht, nh>>
    /\ UNCHANGED trackerVars

NextRing == RingForward

SpecRing == InitRing /\ [][NextRing]_vars

\* every node holds the peers it was given and no action is queued
RingSettled ==
    \A a \in RingAddrs : nodes[a].action_list = <<>>

\* C32: in a network where the peer set of every node is fixed, a Traverse
\* packet that is addressed to no node is forwarded only finitely many times
\* before a node drops it, for every assignment of peer sets and coordinates:
\* it never reaches a node a second time from the same sender (the peer sets
\* being fixed, a packet that does so is forwarded the same way for ever).
C32_TraversalTerminates == ~sim.revisited

(***************************************************************************)
(* Claims about the bootstrap of two nodes (SpecBoot)                       *)
(***************************************************************************)
\* both nodes hold an established session for each other with one session
\* id, and the session index of each maps that id to the other
BothEstablished ==
    /\ SessionIDFor(nodes[0], NodeIDOf(1)) # None
    /\ SessionIDFor(nodes[0], NodeIDOf(1)) = SessionIDFor(nodes[1], NodeIDOf(0))
    /\ nodes[0].remotes[NodeIDOf(1)].pending_session = None
    /\ nodes[1].remotes[NodeIDOf(0)].pending_session = None
    /\ LET s == Unwrap(SessionIDFor(nodes[0], NodeIDOf(1)))
       IN  /\ s \in DOMAIN nodes[0].sessions /\ nodes[0].sessions[s] = NodeIDOf(1)
           /\ s \in DOMAIN nodes[1].sessions /\ nodes[1].sessions[s] = NodeIDOf(0)

\* C19: with N1 running Bootstrap(N0.id, N0.addr), under continued ticking
\* the system reaches a state where both nodes hold an established session
\* for each other with the same session id and both session indexes contain
\* that id; over the whole run exactly one ConnectionInit is delivered to N0.
C19_Bootstrap ==
    /\ <>BothEstablished
    /\ [](nh.inits[0] <= 1)
    /\ <>(nh.inits[0] = 1)

C19_Witness == BothEstablished /\ nh.inits[0] = 1 /\ ~sim.halted

(***************************************************************************)
(* Claims about the publication of the coordinate (SpecPublish)             *)
(***************************************************************************)
\* the directory holds an entry for every public node with at least
\* TARGET_PEER_COUNT peers
DirectoryComplete ==
    \A a \in DOMAIN nodes :
        (nodes[a].is_public
            /\ Cardinality(DOMAIN nodes[a].peer_list) >= TARGET_PEER_COUNT)
        => nodes[a].node_id \in DOMAIN dht

\* the RouteCoordDHTWrite requests of the last tick were all pushed by
\* CalculatePeers actions that ended with at least TARGET_PEER_COUNT peers
\* and began with a published coordinate other than the current one
WritesOnlyInCalculatePeers ==
    \A a \in DOMAIN nodes :
        LET evs == ActionEvents(nh.log[a])
        IN  /\ sim.writes = SumSeq([i \in DOMAIN evs |-> evs[i].wrote])
            /\ \A i \in DOMAIN evs :
                    evs[i].wrote > 0 =>
                        /\ evs[i].type = "CalculatePeers"
                        /\ Cardinality(DOMAIN evs[i].peers) >= TARGET_PEER_COUNT
                        /\ evs[i].public_before # evs[i].coord_before

\* C20: at the end of every simulator tick the coordinate directory holds an
\* entry for every public node whose peer set has at least
\* TARGET_PEER_COUNT members, and a node emits RouteCoordDHTWrite only in a
\* CalculatePeers where its peer set has at least TARGET_PEER_COUNT members
\* and its published coordinate differs from its current one.
C20_DirectoryComplete == DirectoryComplete /\ WritesOnlyInCalculatePeers

(***************************************************************************)
(* Claims about the handshake in a network                                  *)
(***************************************************************************)
\* the events of a kind in the ghost log of the last tick of the node at a
AcceptedAcks(a) == {i \in DOMAIN nh.log[a] : nh.log[a][i].ev = "ack_accepted"}

\* C5: whenever a node accepts an inbound Acknowledge(s, a, _) it has emitted
\* Handshake(recipient = a, session_id = s) before, and its pending session
\* for a holds session id s at the moment of acceptance.
C5_AckAnswersHandshake ==
    \A a \in DOMAIN nh.log : \A i \in AcceptedAcks(a) :
        LET e == nh.log[a][i]
        IN  /\ <<e.acknowledger, e.session_id>> \in nh.sent_before[a]
            /\ e.pending_session_id = e.session_id

\* no packet is in flight and no action is waiting
Quiescent ==
    /\ \A a \in DOMAIN router.packet_map : router.packet_map[a] = <<>>
    /\ \A a \in DOMAIN nodes : nodes[a].action_list = <<>>

\* the only commands given were Connect at node 0 toward node 1 and Connect
\* at node 1 toward node 0, both before the same round
SimultaneousOpen ==
    /\ Len(nh.commands) = 2
    /\ nh.commands[1].ticks = nh.commands[2].ticks
    /\ {nh.commands[1].net_addr, nh.commands[2].net_addr} = {0, 1}
    /\ \A i \in 1..2 : nh.commands[i].action.type = "Connect"

\* C6: when N_a and N_b (a < b) each run Connect toward the other in the same
\* tick, then once both have processed the Handshakes and Acknowledges, both
\* hold one and the same session, and its id is the one N_a generated.
C6_SimultaneousOpen ==
    (SimultaneousOpen /\ Quiescent /\ sim.next = 1 /\ sim.ticks >= 1) =>
        /\ SessionIDFor(nodes[0], NodeIDOf(1)) # None
        /\ SessionIDFor(nodes[0], NodeIDOf(1)) = SessionIDFor(nodes[1], NodeIDOf(0))
        /\ nh.sent[0] = {<<NodeIDOf(1), Unwrap(SessionIDFor(nodes[0], NodeIDOf(1)))>>}

\* no Handshake and no Acknowledge is in flight in the router
NoHandshakeInFlight ==
    \A a \in DOMAIN router.packet_map : \A i \in DOMAIN router.packet_map[a] :
        LET packet == router.packet_map[a][i].packet
        IN  packet.data # None =>
                Unwrap(packet.data).type \notin {"Handshake", "Acknowledge"}

\* the commands given were Connect actions
OnlyConnects ==
    \A i \in DOMAIN nh.commands : nh.commands[i].action.type = "Connect"

\* C26: for two nodes, any timing of Connect actions on either side and any
\* delivery delays: once no Handshake or Acknowledge between the two is in
\* flight and each holds an established session for the other, both
\* sessions carry the same session id.
C26_SessionsAgree ==
    (/\ OnlyConnects /\ NoHandshakeInFlight /\ sim.next = 1
     /\ \A a \in NetAddrs : nodes[a].action_list = <<>>
     /\ SessionIDFor(nodes[0], NodeIDOf(1)) # None
     /\ SessionIDFor(nodes[1], NodeIDOf(0)) # None)
        => SessionIDFor(nodes[0], NodeIDOf(1)) = SessionIDFor(nodes[1], NodeIDOf(0))

(***************************************************************************)
(* Claims about the tracker                                                *)
(***************************************************************************)
\* C7: after any sequence of gen_ping and acknowledge_ping calls the number
\* of pending pings is at most MAX_PENDING_PINGS.
C7_PingQueueBounded == pending_pings(tracker) <= MAX_PENDING_PINGS

\* the queue was filled, gen_ping evicted, and an acknowledgement was handled
C7_Witness ==
    /\ th.evicted # {}
    /\ th.acks > 0
    /\ th.gens > MAX_PENDING_PINGS

\* C8: MAX_PENDING_PINGS + 5 gen_ping calls at non-decreasing times on a new
\* tracker, with no acknowledgement, leave exactly MAX_PENDING_PINGS pings
\* pending: the five ids issued first are evicted and the MAX_PENDING_PINGS
\* ids issued last are all pending.
C8_EvictionScenario ==
    (th.gens = MAX_PENDING_PINGS + 5 /\ th.acks = 0 /\ th.collisions = 0) =>
        /\ pending_pings(tracker) = MAX_PENDING_PINGS
        /\ th.evicted = 1..5
        /\ DOMAIN tracker.ping_queue = 6..(MAX_PENDING_PINGS + 5)

\* C9: acknowledge_ping of an id that is not pending fails with UnknownPingID,
\* returns no distance and leaves the tracker (dist_avg, ping_count, the
\* queue) as it was; a successful acknowledge_ping removes the id, so a
\* second acknowledge_ping of it fails.
C9_UnknownPingRejected ==
    th.last.op = "ack" =>
        LET before == th.last.before
            id == th.last.ping_id
        IN  /\ id \notin DOMAIN before.ping_queue =>
                    /\ ~th.last.ok
                    /\ th.last.value = None
                    /\ tracker = before
            /\ id \in DOMAIN before.ping_queue =>
                    /\ th.last.ok
                    /\ th.last.value = Some(tracker.dist_avg)
                    /\ tracker.ping_count = before.ping_count + 1
                    /\ id \notin DOMAIN tracker.ping_queue

\* an id acknowledged once is acknowledged again, and the call fails
C9_Witness ==
    /\ th.last.op = "ack"
    /\ th.last.ping_id \in th.acked
    /\ ~th.last.ok

=============================================================================
